---- MODULE Spec2Model ----
(***************************************************************************)
(* A model of the stepwise execution tracer of Code_Visualizer (src/a.py): *)
(* the WebDebugger session (a Bdb subclass), its line/call/return hooks,   *)
(* the console-input interceptor, run_debugger with its exit paths, the    *)
(* /debug route that drives it, and the traceback sanitizer.               *)
(*                                                                         *)
(* The submitted program and the execution engine (CPython's tracing and   *)
(* bdb.Bdb's dispatch) are the environment: the program may execute a      *)
(* line, call, return, print, read the console, raise, catch or let an     *)
(* exception unwind a frame; the engine turns each into the hooks the      *)
(* tracer overrides.                                                       *)
(***************************************************************************)
EXTENDS Naturals, Sequences, FiniteSets

(***************************************************************************)
(* Bounds of the model.                                                    *)
(***************************************************************************)
\* program events (lines, calls, prints, reads, raises) of one run
MaxEvents == 4
\* requests served by the session
MaxRuns == 2
\* frames the program stacks above its module-level frame
MaxDepth == 2

\* events of a scripted program
MaxScript == 4

\* prompts a console read may carry
Prompts == {"p1", "p2"}
\* the value a caller injects with its n-th request: the tracer never
\* inspects a value, so one name per request stands for any choice
ValueNames == <<"v1", "v2", "v3", "v4", "v5", "v6", "v7", "v8">>
ValueOf(n) == ValueNames[n]

(***************************************************************************)
(* Absent values.  Python's None is modelled per type: call ids start at   *)
(* 1, so 0 is no id; an absent string is the reserved NoValue; an absent   *)
(* error text is the empty sequence of lines.                              *)
(***************************************************************************)
NoId == 0
NoValue == "<None>"
NoError == << >>

Last(s) == s[Len(s)]
Front(s) == SubSeq(s, 1, Len(s) - 1)

(***************************************************************************)
(* Files a frame or a report line may name.                                *)
(***************************************************************************)
UserFile == "<string>"
DebuggerPath == "/srv/app/a.py"
BdbPath == "/usr/lib/python3/bdb.py"
StdlibPath == "/usr/lib/python3/json/encoder.py"
FlaskPath == "/srv/venv/flask/app.py"
ExternalPath == "/home/dev/pkg/mod.py"
AbsolutePaths == {DebuggerPath, BdbPath, StdlibPath, FlaskPath, ExternalPath}

\* os.path.basename
Basename(p) ==
    CASE p = DebuggerPath -> "a.py"
      [] p = BdbPath -> "bdb.py"
      [] p = StdlibPath -> "encoder.py"
      [] p = FlaskPath -> "app.py"
      [] p = ExternalPath -> "mod.py"
      [] OTHER -> p

\* abs_filepath.startswith(python_std_lib_prefix), sys.prefix being /usr
UnderSysPrefix(p) == p \in {BdbPath, StdlibPath}
\* "flask" in abs_filepath.lower()
MentionsFlask(p) == p = FlaskPath

(***************************************************************************)
(* sanitize_traceback_paths.  A report is a sequence of lines; a line is   *)
(* [kind, path, body]: kind "file" is a line that starts with File "...",  *)
(* path the file reference it shows ([label, name]: label "raw" is the     *)
(* path as the interpreter printed it), body the rest of the line.  A      *)
(* "text" line may still show a path (the summary line of a syntax-error   *)
(* report does).                                                           *)
(***************************************************************************)
NoPath == [label |-> "", name |-> ""]
RawPath(p) == [label |-> "raw", name |-> p]
TextLine(b) == [kind |-> "text", path |-> NoPath, body |-> b]
FileLine(p, b) == [kind |-> "file", path |-> RawPath(p), body |-> b]

\* lines 52-74: the display that replaces the file path of a File line
SanitizedDisplay(p) ==
    IF p = UserFile THEN [label |-> "Your Code", name |-> ""]
    ELSE IF p = DebuggerPath THEN [label |-> "Debugger Internals", name |-> Basename(p)]
    ELSE IF UnderSysPrefix(p) \/ Basename(p) = "bdb.py" \/ MentionsFlask(p)
         THEN [label |-> (IF Basename(p) = "bdb.py" THEN "Python Debugger Library"
                          ELSE IF MentionsFlask(p) THEN "Flask Internals"
                          ELSE "Python System Library"),
               name |-> Basename(p)]
    ELSE [label |-> "External Code", name |-> Basename(p)]

\* lines 44-75: one line after the first, rewritten
SanitizeLine(line) ==
    IF line.kind = "file"
    THEN [line EXCEPT !.path = SanitizedDisplay(line.path.name)]
    ELSE line

\* line 56: the line is a frame of the user submission
IsUserCodeMarker(line) == line.kind = "file" /\ line.path.name = UserFile

\* index of the first user-submission frame line after line 1, 0 if none
FirstUserMarker(lines) ==
    LET idx == {i \in 2..Len(lines) : IsUserCodeMarker(lines[i])}
    IN IF idx = {} THEN 0 ELSE CHOOSE i \in idx : \A j \in idx : i <= j

\* the mutant of sanitize_traceback_paths without lines 83-84: a report with
\* no frame of the user submission loses every line but the first
sanitize_traceback_paths_no_fallback(lines, originated_in_user_code) ==
    IF lines = << >> THEN lines
    ELSE LET all == [i \in 1..Len(lines) |->
                        IF i = 1 THEN lines[1] ELSE SanitizeLine(lines[i])]
             first == FirstUserMarker(lines)
         IN IF originated_in_user_code
            THEN IF first # 0
                 THEN <<all[1]>> \o SubSeq(all, first, Len(all))
                 ELSE <<all[1]>>
            ELSE all

\* lines 18-85
sanitize_traceback_paths(lines, originated_in_user_code) ==
    IF lines = << >> THEN lines
    ELSE LET all == [i \in 1..Len(lines) |->
                        IF i = 1 THEN lines[1] ELSE SanitizeLine(lines[i])]
             first == FirstUserMarker(lines)
         IN IF originated_in_user_code /\ first # 0
            THEN <<all[1]>> \o SubSeq(all, first, Len(all))
            ELSE all

\* a line of a text shows an absolute file-system path
LeaksPath(text) ==
    \E i \in 1..Len(text) :
        text[i].path.label = "raw" /\ text[i].path.name \in AbsolutePaths

(***************************************************************************)
(* Frames.  A frame is [file, name, started, id]: the file of its code      *)
(* object, its co_name, whether it has executed a line yet (the engine     *)
(* reports the first line of a frame before the frame does anything), and  *)
(* the call id user_call gave its invocation (NoId when the hook did not   *)
(* run for it).  The classification is the one user_call, user_return and  *)
(* user_line compute.                                                      *)
(***************************************************************************)
Frame(file, name) == [file |-> file, name |-> name, started |-> FALSE, id |-> NoId]

\* lines 115-123
debugger_internal_methods ==
    {"run_debugger", "user_line", "user_call", "user_return", "_safe_repr",
     "extract_visualizables", "_is_visualizable_candidate",
     "_get_frame_args_and_values", "_custom_input_handler", "_one_time_input_mock",
     "reset_internal_debugger_state", "run", "runcall", "main",
     "dispatch_line", "dispatch_call", "dispatch_return", "dispatch_exception",
     "stop_here", "break_here", "break_anywhere"}

\* lines 601-602, 630-631, 656
IsDebuggerInternal(f) == f.file = DebuggerPath /\ f.name \in debugger_internal_methods
\* lines 603, 632, 657
IsBdbInternal(f) == Basename(f.file) = "bdb.py"
\* line 653
IsUserCode(f) == f.file = UserFile

ModuleFrame == Frame(UserFile, "<module>")
MockFrame == Frame(DebuggerPath, "_one_time_input_mock")
HandlerFrame == Frame(DebuggerPath, "_custom_input_handler")
SignalInitFrame == Frame(DebuggerPath, "__init__")

\* frames the submitted program can enter by a call of its own
CallableFrames ==
    {Frame(UserFile, "f"), Frame(UserFile, "<module>"),
     Frame(StdlibPath, "encode"), Frame(BdbPath, "set_trace")}

(***************************************************************************)
(* The call event log.  The four session fields the call and return hooks  *)
(* touch are handled as one record cs = [counter, log, active, logged].    *)
(***************************************************************************)
CallRecord(id, parent, name, step) ==
    [type |-> "call", call_id |-> id, parent_call_id |-> parent,
     function_name |-> name, timestamp_step |-> step]
ReturnRecord(id, step) ==
    [type |-> "return", call_id |-> id, parent_call_id |-> NoId,
     function_name |-> "", timestamp_step |-> step]

\* a faulty user_call, which logs every invocation it is told of, the
\* tracer's and the engine's own included (line 608 left out)
user_call_logs_internal(cs, f, step, args_fail) ==
    LET new_call_id == cs.counter + 1
        logged_parent_call_id ==
            IF cs.logged # << >> THEN Last(cs.logged) ELSE NoId
        entered == [cs EXCEPT !.counter = new_call_id,
                              !.active = Append(cs.active, new_call_id)]
    IN IF args_fail /\ f.name # "<module>"
       THEN entered
       ELSE [entered EXCEPT
               !.log = Append(cs.log, CallRecord(new_call_id,
                           logged_parent_call_id, f.name, step)),
               !.logged = Append(cs.logged, new_call_id)]

\* lines 593-618.  args_fail: _get_frame_args_and_values raises (line 609);
\* the handler's except clause then keeps what was done before it.
user_call(cs, f, step, args_fail) ==
    LET new_call_id == cs.counter + 1
        logged_parent_call_id ==
            IF cs.logged # << >> THEN Last(cs.logged) ELSE NoId
        entered == [cs EXCEPT !.counter = new_call_id,
                              !.active = Append(cs.active, new_call_id)]
    IN IF ~IsDebuggerInternal(f) /\ ~IsBdbInternal(f)
       THEN IF args_fail /\ f.name # "<module>"
            THEN entered
            ELSE [entered EXCEPT
                    !.log = Append(cs.log, CallRecord(new_call_id,
                                logged_parent_call_id, f.name, step)),
                    !.logged = Append(cs.logged, new_call_id)]
       ELSE entered

\* lines 634-638: the call record of the returning id opened a module-level
\* invocation that has no logged parent
IsTopLevelModuleReturn(log, id) ==
    \E i \in 1..Len(log) :
        /\ log[i].type = "call" /\ log[i].call_id = id
        /\ log[i].function_name = "<module>" /\ log[i].parent_call_id = NoId

\* a faulty user_return, which records a return without asking whether the
\* returning invocation is the innermost logged one (line 640 left out)
user_return_unmatched(cs, f, step, repr_fails) ==
    IF cs.active = << >> THEN cs
    ELSE LET returned_call_id == Last(cs.active)
             on_top == cs.logged # << >> /\ Last(cs.logged) = returned_call_id
         IN [cs EXCEPT
                !.active = Front(cs.active),
                !.log = IF ~IsDebuggerInternal(f) /\ ~IsBdbInternal(f)
                        THEN Append(cs.log, ReturnRecord(returned_call_id, step))
                        ELSE cs.log,
                !.logged = IF on_top THEN Front(cs.logged) ELSE cs.logged]

\* lines 620-648.  repr_fails: _safe_repr of the return value raises (line
\* 641); the except clause then skips the pop of the logged stack.
user_return(cs, f, step, repr_fails) ==
    IF cs.active = << >> THEN cs
    ELSE LET returned_call_id == Last(cs.active)
             popped == [cs EXCEPT !.active = Front(cs.active)]
             on_top == cs.logged # << >> /\ Last(cs.logged) = returned_call_id
             records == ~IsDebuggerInternal(f) /\ ~IsBdbInternal(f)
                        /\ ~IsTopLevelModuleReturn(cs.log, returned_call_id)
                        /\ on_top
         IN IF records /\ repr_fails
            THEN popped
            ELSE [popped EXCEPT
                    !.log = IF records
                            THEN Append(cs.log, ReturnRecord(returned_call_id, step))
                            ELSE cs.log,
                    !.logged = IF on_top THEN Front(cs.logged) ELSE cs.logged]

(***************************************************************************)
(* Source texts.  A text is its lines and whether a line terminator ends   *)
(* it; what the lines say is abstract, but whether the text compiles is a  *)
(* property of its lines.                                                  *)
(***************************************************************************)
Text(lines, nl) == [lines |-> lines, nl |-> nl]
SrcGood == Text(<<"stmt">>, TRUE)
SrcBad == Text(<<"x = (">>, FALSE)
SrcNul == Text(<<"nul byte">>, FALSE)
SrcBlank == Text(<< >>, FALSE)
Sources == {SrcGood, SrcBad, SrcNul, SrcBlank}

\* str.splitlines, line 743
splitlines(text) == text.lines
\* "\n".join(code_lines), line 1050
JoinLines(lines) == Text(lines, FALSE)
\* not final_code_to_debug.strip(), line 1053
IsBlank(text) == text.lines = << >>
\* what compile(code_str, '<string>', 'exec') does, line 758
CompileResult(text) ==
    IF text.lines = SrcBad.lines THEN "SyntaxError"
    ELSE IF text.lines = SrcNul.lines THEN "Exception"
    ELSE "ok"

(***************************************************************************)
(* Raw failure reports, as the traceback module formats them.              *)
(***************************************************************************)
\* line 778: "SyntaxError: " + format_exception_only(...).strip();
\* the location the exception carries opens the text, NoValue if it has none
SyntaxReport(filename) ==
    IF filename = NoValue
    THEN <<TextLine("SyntaxError: SyntaxError: msg")>>
    ELSE <<[kind |-> "text", path |-> RawPath(filename), body |-> "SyntaxError: File, line"],
           TextLine("source line"), TextLine("caret"),
           TextLine("SyntaxError: invalid syntax")>>

\* line 785: format_exception over the files of the traceback's frames
RuntimeReport(tb) ==
    <<TextLine("Traceback (most recent call last):")>>
    \o [i \in 1..Len(tb) |-> FileLine(tb[i], "in frame")]
    \o <<TextLine("Error: message")>>

\* the traceback of an exception raised by the innermost of `stack`, as
\* run_debugger sees it: its own frame, Bdb.runcall, then the program's
TracebackOf(stack) ==
    <<DebuggerPath, BdbPath>> \o [i \in 1..Len(stack) |-> stack[i].file]

\* line 723
InternalErrorReport ==
    <<TextLine("Debugger Internal Error in user_line: e"),
      TextLine("Traceback (most recent call last):"),
      FileLine(DebuggerPath, "in user_line"),
      FileLine(DebuggerPath, "in extract_visualizables"),
      TextLine("Error: e")>>

\* line 1074
ServerErrorReport ==
    <<TextLine("Internal server error during debugging: Traceback (most recent call last):"),
      FileLine(DebuggerPath, "in debug"), FileLine(DebuggerPath, "in run_debugger"),
      TextLine("Error: e")>>

(***************************************************************************)
(* Steps of the execution trace.                                           *)
(***************************************************************************)
Step(step, code, locals, visualizables, stdout, error, current_frames, historical_events, active_call_ids) ==
    [step |-> step, code |-> code, locals |-> locals,
     visualizables |-> visualizables, stdout |-> stdout, error |-> error,
     input_request |-> NoValue, current_frames |-> current_frames,
     historical_events |-> historical_events,
     active_call_ids |-> active_call_ids]

\* lines 709-710, 726-727, 792-793
EventsUpTo(log, step) ==
    SelectSeq(log, LAMBDA e : e.timestamp_step <= step)

\* line 681
MAX_STACK_DEPTH_DISPLAY_SIMPLE == 7

\* lines 678-706: the frames of the submission among the innermost 7 of the
\* chain, innermost first, under their display names
DisplayName(f) == IF f.name = "<module>" THEN "(Global Scope)"
                  ELSE IF f.name = "<lambda>" THEN "lambda" ELSE f.name
CurrentFramesFrom(stack, depth) ==
    LET n == Len(stack)
        walked == [i \in 1..(IF n < depth THEN n ELSE depth) |-> stack[n + 1 - i]]
        shown == SelectSeq(walked, LAMBDA f :
                    ~IsDebuggerInternal(f) /\ ~IsBdbInternal(f) /\ IsUserCode(f))
    IN [i \in 1..Len(shown) |-> DisplayName(shown[i])]
CurrentFrames(stack) == CurrentFramesFrom(stack, MAX_STACK_DEPTH_DISPLAY_SIMPLE)

\* lines 361-362, 663, 810: the graph of a step.  Its nodes carry the
\* identities (id, memory_address) the interpreter gave the objects of the
\* run: `scope` is the scope the graph was extracted from ("frame": the
\* scope of the line, "final": the module scope after the run, "none": no
\* graph), `ids` those identities
GraphOf(scope, ids) == [scope |-> scope, ids |-> ids]
NoGraph == GraphOf("none", NoValue)

\* lines 711-716: the step a line hook records
LineStep(step, stdout, log, logged, stack, ids) ==
    Step(step, "line", "frame", GraphOf("frame", ids), stdout, NoError,
         CurrentFrames(stack),
         EventsUpTo(log, step), logged)

\* lines 723-733: the step the line hook records when its capture raised
LineErrorStep(step, stdout, log, logged) ==
    Step(step, "<Debugger Error in user_line>", "none", NoGraph, stdout,
         sanitize_traceback_paths(InternalErrorReport, FALSE), << >>,
         EventsUpTo(log, step), logged)

\* a faulty SyntaxErrorInfo, which numbers the step 1
SyntaxErrorInfo_from_one(stdout, log, logged, filename) ==
    Step(1, "Syntax Error", "none", NoGraph, stdout,
         sanitize_traceback_paths(SyntaxReport(filename), TRUE), << >>,
         log, logged)

\* lines 772-779
SyntaxErrorInfo(stdout, log, logged, filename) ==
    Step(0, "Syntax Error", "none", NoGraph, stdout,
         sanitize_traceback_paths(SyntaxReport(filename), TRUE), << >>,
         log, logged)

\* lines 781-801
RuntimeErrorInfo(trace, step, stdout, log, logged, tb) ==
    LET has == trace # << >>
        originated_in_user_code_flag == tb # << >> /\ Last(tb) = UserFile
    IN Step(step,
            IF has THEN Last(trace).code ELSE "<Error during execution>",
            IF has THEN Last(trace).locals ELSE "none",
            IF has THEN Last(trace).visualizables ELSE NoGraph,
            stdout,
            sanitize_traceback_paths(RuntimeReport(tb), originated_in_user_code_flag),
            IF has THEN Last(trace).current_frames ELSE << >>,
            EventsUpTo(log, step), logged)

\* lines 824-844: the terminal step of a failed run is appended, or merged
\* into the last step when that step already carries the same error text
FinalizeError(trace, error_info, is_syntax, stdout, log, logged, ids) ==
    LET for_trace == [error_info EXCEPT
                        !.stdout = stdout,
                        !.historical_events = log,
                        !.active_call_ids = logged,
                        !.locals = IF is_syntax THEN "module" ELSE @,
                        !.visualizables = IF is_syntax THEN GraphOf("final", ids) ELSE @]
    IN IF trace = << >> \/ Last(trace).error # for_trace.error
       THEN Append(trace, for_trace)
       ELSE [trace EXCEPT ![Len(trace)] =
                [@ EXCEPT !.stdout = stdout,
                          !.current_frames = for_trace.current_frames,
                          !.historical_events = log,
                          !.active_call_ids = logged,
                          !.locals = IF is_syntax THEN "module" ELSE @,
                          !.visualizables = IF is_syntax THEN GraphOf("final", ids) ELSE @]]

\* a faulty FinalizeNormal, which writes the final output on every step of
\* the trace
FinalizeNormal_every_step(trace, step, stdout, log, ids) ==
    IF trace # << >>
    THEN [i \in 1..Len(trace) |->
            IF i = Len(trace)
            THEN [trace[i] EXCEPT
                      !.stdout = stdout,
                      !.visualizables = GraphOf("final", ids),
                      !.locals = "module", !.current_frames = << >>,
                      !.historical_events = log, !.active_call_ids = << >>]
            ELSE [trace[i] EXCEPT !.stdout = stdout]]
    ELSE <<Step(step, "Finished (No user lines traced)", "module",
                GraphOf("final", ids), stdout, NoError, << >>, log, << >>)>>

\* lines 845-861: normal completion rewrites the last step, or appends the
\* only step of a program that traced no line
FinalizeNormal(trace, step, stdout, log, ids) ==
    IF trace # << >>
    THEN [trace EXCEPT ![Len(trace)] =
            [@ EXCEPT !.stdout = stdout,
                      !.visualizables = GraphOf("final", ids),
                      !.locals = "module", !.current_frames = << >>,
                      !.historical_events = log, !.active_call_ids = << >>]]
    ELSE <<Step(step, "Finished (No user lines traced)", "module",
                GraphOf("final", ids), stdout, NoError, << >>, log, << >>)>>

\* a faulty FinalizeWaiting, which leaves the output of the last step as the
\* line hook recorded it
FinalizeWaiting_stale_output(trace, prompt, stdout) ==
    IF trace # << >>
    THEN [trace EXCEPT ![Len(trace)] = [@ EXCEPT !.input_request = prompt]]
    ELSE trace

\* a faulty FinalizeWaiting, which writes the prompt on the first step
FinalizeWaiting_first_step(trace, prompt, stdout) ==
    IF trace # << >>
    THEN [trace EXCEPT ![1] =
            [@ EXCEPT !.input_request = prompt, !.stdout = stdout]]
    ELSE trace

\* lines 760-766: suspension writes the prompt on the last step
FinalizeWaiting(trace, prompt, stdout) ==
    IF trace # << >>
    THEN [trace EXCEPT ![Len(trace)] =
            [@ EXCEPT !.input_request = prompt, !.stdout = stdout]]
    ELSE trace

\* lines 1069-1072, 1078-1081: the one-step trace of a request that failed
\* outside run_debugger
RouteErrorTrace(code, error) ==
    <<Step(0, code, "none", NoGraph, << >>, error, << >>, << >>, << >>)>>

(***************************************************************************)
(* Object graphs: _safe_repr and extract_visualizables.                    *)
(***************************************************************************)
\* the objects of the heap explored, the fields, elements and entries they
\* hold together, and the depth of nested calls at which the interpreter
\* raises RecursionError
MaxObjects == 2
MaxSlots == 2
RecursionLimit == 3

\* a value is a primitive or the identity of an object; a heap is the
\* sequence of its objects, the identity of an object being its index; an
\* object has a type and the values of its fields (object), elements (list)
\* or entries (dict, under primitive keys), in iteration order
Primitive == 0
ObjectTypes == {"list", "dict", "object"}
\* an object whose class cannot be asked for: a __class__ property that
\* raises makes isinstance raise (lines 198, 242, 270)
GuardedType == "guarded"
Guarded(h, v) == v # Primitive /\ h[v].type = GuardedType
HeapObject(type, items) == [type |-> type, items |-> items]
Unknown == "?"

\* the names a scope binds, in iteration order, which is also their sorted
\* order; a name bound to Primitive holds a number
ScopeNames == <<"x", "y">>
DunderNames == {"__builtins__", "__name__"}
StartsWithDunder(name) == name \in DunderNames
NameIndex(name) == CHOOSE i \in 1..Len(ScopeNames) : ScopeNames[i] = name

Min(a, b) == IF a <= b THEN a ELSE b

\* what _safe_repr returns: the reference marker of line 196, the repr of a
\* primitive, the preview of a container with the renderings of its first
\* items, the repr of an object; Raised is the RecursionError leaving the
\* call, ErrorRepr the '<Error: ...>' entry of lines 411, 443
Rendering(kind, id, items) == [kind |-> kind, id |-> id, items |-> items]
RefMarker(id) == Rendering("ref", id, << >>)
PrimitiveRepr == Rendering("primitive", Primitive, << >>)
Preview(id, items) == Rendering("preview", id, items)
ObjectRepr(id) == Rendering("repr", id, << >>)
Raised == Rendering("raise", Primitive, << >>)
ErrorRepr == Rendering("error", Primitive, << >>)

\* line 202
preview_limit == 3

\* lines 178-235: the call at nesting depth `depth`
RECURSIVE safe_repr(_, _, _, _, _)
safe_repr(h, obj, context_id, tracked_ids, depth) ==
    IF depth > RecursionLimit THEN Raised
    ELSE IF obj # Primitive /\ obj # context_id /\ obj \in tracked_ids
    THEN RefMarker(obj)
    ELSE IF obj = Primitive THEN PrimitiveRepr
    ELSE IF Guarded(h, obj) THEN Raised
    ELSE IF h[obj].type \in {"list", "dict"}
    THEN LET n == Min(Len(h[obj].items), preview_limit)
             items_repr ==
                 [i \in 1..n |->
                     safe_repr(h, h[obj].items[i], context_id, tracked_ids,
                               depth + 1)]
         IN IF \E i \in 1..n : items_repr[i].kind = "raise"
            THEN Raised
            ELSE Preview(obj, items_repr)
    ELSE ObjectRepr(obj)

\* lines 237-252
is_visualizable_candidate(value) == value # Primitive

\* lines 269-279, 339-349
viz_type(h, id) ==
    IF h[id].type = "list" THEN "array"
    ELSE IF h[id].type = "dict" THEN "dict"
    ELSE "object"

\* object_info_map: its entries in insertion order
MapEntry(id, names, vizType, is_direct) ==
    [id |-> id, names |-> names, vizType |-> vizType, is_direct |-> is_direct]
Keys(map) == {map[i].id : i \in 1..Len(map)}
EntryOf(map, id) == map[CHOOSE i \in 1..Len(map) : map[i].id = id]

\* the mutant of register_name that never looks the identity up
register_name_always_new(h, map, var_name, item_id) ==
    Append(map, MapEntry(item_id, {var_name}, viz_type(h, item_id), TRUE))

\* lines 268-285 without the queue: the map after a name bound to item_id
register_name(h, map, var_name, item_id) ==
    IF item_id \notin Keys(map)
    THEN Append(map, MapEntry(item_id, {var_name}, viz_type(h, item_id), TRUE))
    ELSE [i \in 1..Len(map) |->
            IF map[i].id = item_id
            THEN [map[i] EXCEPT !.names = @ \cup {var_name}, !.is_direct = TRUE]
            ELSE map[i]]

\* lines 255-260: the traversal state
NewTraversal ==
    [map |-> << >>, queue |-> << >>, visited |-> {}, expanded |-> {},
     processed |-> 0]

\* lines 261-285, from name number i on
RECURSIVE bind_names(_, _, _, _)
bind_names(h, variables, st, i) ==
    IF i > Len(ScopeNames) THEN st
    ELSE LET var_name == ScopeNames[i]
             var_value == variables[var_name]
         IN IF StartsWithDunder(var_name)
                  \/ ~is_visualizable_candidate(var_value)
            THEN bind_names(h, variables, st, i + 1)
            ELSE bind_names(h, variables,
                    [st EXCEPT
                        !.map = register_name(h, @, var_name, var_value),
                        !.queue = IF var_value \notin Keys(st.map)
                                     /\ var_value \notin st.visited
                                  THEN Append(@, var_value) ELSE @,
                        !.visited = IF var_value \notin Keys(st.map)
                                    THEN @ \cup {var_value} ELSE @],
                    i + 1)

\* lines 258, 259
MAX_TRAVERSAL_ITEMS == 500
MAX_COLLECTION_ITEMS_TRAVERSE == 30

\* lines 294-331.  The scan of a dict asks whether each value is a
\* candidate (lines 319-322) inside a try block: a guarded value ends the
\* scan, and the children found before it stay.
children_to_check(h, id, vizType) ==
    LET items == h[id].items
        seen == SubSeq(items, 1, Min(Len(items), MAX_COLLECTION_ITEMS_TRAVERSE))
        guarded == {i \in 1..Len(seen) : Guarded(h, seen[i])}
        scanned == IF guarded = {} THEN seen
                   ELSE SubSeq(seen, 1, (CHOOSE i \in guarded :
                                            \A j \in guarded : i <= j) - 1)
    IN IF vizType = "object" THEN items
       ELSE IF vizType = "array" THEN seen
       ELSE SelectSeq(scanned, is_visualizable_candidate)

\* lines 333-352: one child of the object being expanded
add_child(h, st, child_id) ==
    IF ~is_visualizable_candidate(child_id) THEN st
    ELSE [st EXCEPT
            !.map = IF child_id \notin Keys(@)
                    THEN Append(@, MapEntry(child_id, {},
                                    viz_type(h, child_id), FALSE))
                    ELSE @,
            !.queue = IF child_id \notin st.visited
                      THEN Append(@, child_id) ELSE @,
            !.visited = @ \cup {child_id}]

\* line 332: the children numbered from..to, in order.  The range is
\* halved, and the first half is evaluated (by the comparison, which always
\* holds: the loop leaves items_processed_bfs alone) before the second is
\* entered, so that the evaluation nests no deeper than the logarithm of
\* what a linear recursion would need.
RECURSIVE add_range(_, _, _, _, _)
add_range(h, st, children, from, to) ==
    IF from > to THEN st
    ELSE IF from = to THEN add_child(h, st, children[from])
    ELSE LET mid == (from + to) \div 2
             first_half == add_range(h, st, children, from, mid)
         IN IF first_half.processed = st.processed
            THEN add_range(h, first_half, children, mid + 1, to)
            ELSE first_half

\* lines 332-352, from child number i on
add_children(h, st, children, i) == add_range(h, st, children, i, Len(children))

\* lines 287-352: one turn of the loop
traverse_one(h, st) ==
    LET current_obj_id == Head(st.queue)
        popped == [st EXCEPT !.queue = Tail(@), !.processed = @ + 1]
    IN IF current_obj_id \notin Keys(st.map)
             \/ current_obj_id \in st.expanded
       THEN popped
       ELSE add_children(h,
                [popped EXCEPT !.expanded = @ \cup {current_obj_id}],
                children_to_check(h, current_obj_id,
                    EntryOf(st.map, current_obj_id).vizType),
                1)

\* line 286: the loop, for at most `turns` turns; it ends as soon as its
\* condition fails.  The turns are halved for the same reason as above.
RECURSIVE traverse_turns(_, _, _)
traverse_turns(h, st, turns) ==
    IF st.queue = << >> \/ st.processed >= MAX_TRAVERSAL_ITEMS THEN st
    ELSE IF turns = 1 THEN traverse_one(h, st)
    ELSE LET half == turns \div 2
             first_half == traverse_turns(h, st, half)
         IN IF first_half.queue = << >>
                  \/ first_half.processed >= MAX_TRAVERSAL_ITEMS
            THEN first_half
            ELSE traverse_turns(h, first_half, turns - half)

\* lines 286-352: every turn raises items_processed_bfs by one, so the loop
\* is over after MAX_TRAVERSAL_ITEMS turns at the latest
traverse(h, st) == traverse_turns(h, st, MAX_TRAVERSAL_ITEMS)

\* lines 389-390, 406-407, 439-440: a reference, its label being the
\* position of the field, element or entry
Reference(position, target_id, map) ==
    [field_name |-> position, target_id |-> target_id,
     target_type |-> EntryOf(map, target_id).vizType]

\* lines 358-360: the names joined in sorted order, none when the node is
\* shown as '<vizType @ address>'
DisplayNameOf(names) == SelectSeq(ScopeNames, LAMBDA n : n \in names)

\* lines 356-514 for one entry of the map: the renderings are computed item
\* by item until one raises; the references appended before that stay
format_item(h, entry, map) ==
    LET items == h[entry.id].items
        all_visualized_ids == Keys(map)
        reprs == [i \in 1..Len(items) |->
                     safe_repr(h, items[i], entry.id, all_visualized_ids, 1)]
        raising == {i \in 1..Len(items) : reprs[i].kind = "raise"}
        done == IF raising = {} THEN Len(items)
                ELSE (CHOOSE i \in raising : \A j \in raising : i <= j) - 1
        referring == SelectSeq([i \in 1..done |-> i],
                               LAMBDA i : items[i] \in all_visualized_ids)
        references == [k \in 1..Len(referring) |->
                          Reference(referring[k], items[referring[k]], map)]
    IN IF entry.vizType = "object"
       THEN \* lines 365-390, 512-514
            [id |-> entry.id, vizType |-> entry.vizType,
             name |-> DisplayNameOf(entry.names),
             has_direct_reference |-> entry.is_direct,
             references |-> references,
             payload |-> SubSeq(reprs, 1, done), length |-> NoValue,
             error |-> raising # {}]
       ELSE \* lines 391-444
            [id |-> entry.id, vizType |-> entry.vizType,
             name |-> DisplayNameOf(entry.names),
             has_direct_reference |-> entry.is_direct,
             references |-> references,
             payload |-> IF raising = {} THEN reprs ELSE <<ErrorRepr>>,
             length |-> IF raising = {} THEN Len(items) ELSE Unknown,
             error |-> FALSE]

\* lines 515-518: the sort key; a node without a name is shown as
\* '<vizType @ address>', which sorts before every name
TypeRank(vizType) ==
    IF vizType = "object" THEN 0 ELSE IF vizType = "dict" THEN 1 ELSE 3
SortKey(node) ==
    <<IF node.has_direct_reference THEN 0 ELSE 1, TypeRank(node.vizType)>>
    \o (IF node.name = << >>
        THEN <<0, node.id>>
        ELSE [i \in 1..Len(node.name) |-> NameIndex(node.name[i])])
KeyLess(a, b) ==
    \E k \in 1..Len(b) :
        /\ \A i \in 1..(k - 1) : i <= Len(a) /\ a[i] = b[i]
        /\ (k > Len(a) \/ a[k] < b[k])

\* list.sort is stable: a node goes after the nodes whose key is not larger
InsertByKey(sorted, node) ==
    LET after == {p \in 1..Len(sorted) : KeyLess(SortKey(node), SortKey(sorted[p]))}
        at == IF after = {} THEN Len(sorted) + 1
              ELSE CHOOSE p \in after : \A q \in after : p <= q
    IN SubSeq(sorted, 1, at - 1) \o <<node>> \o SubSeq(sorted, at, Len(sorted))
\* the nodes numbered from..to inserted one after the other, the range
\* halved and the first half evaluated first, as above
RECURSIVE InsertRange(_, _, _, _)
InsertRange(sorted, nodes, from, to) ==
    IF from > to THEN sorted
    ELSE IF from = to THEN InsertByKey(sorted, nodes[from])
    ELSE LET mid == (from + to) \div 2
             first_half == InsertRange(sorted, nodes, from, mid)
         IN IF Len(first_half) = Len(sorted) + (mid - from + 1)
            THEN InsertRange(first_half, nodes, mid + 1, to)
            ELSE first_half
SortByKey(nodes, n) == InsertRange(<< >>, nodes, 1, n)

\* lines 262, 333: the candidate test of a scope variable, and that of a
\* child of an expanded object or array, is outside every try block, so
\* that a guarded object there makes extract_visualizables raise
extraction_raises(h, variables) ==
    \/ \E i \in 1..Len(ScopeNames) :
            /\ ~StartsWithDunder(ScopeNames[i])
            /\ Guarded(h, variables[ScopeNames[i]])
    \/ LET st == traverse(h, bind_names(h, variables, NewTraversal, 1))
       IN \E id \in st.expanded :
             LET vizType == EntryOf(st.map, id).vizType
                 children == children_to_check(h, id, vizType)
             IN /\ vizType \in {"object", "array"}
                /\ \E c \in 1..Len(children) : Guarded(h, children[c])

\* lines 254-519
extract_visualizables(h, variables) ==
    LET bound == bind_names(h, variables, NewTraversal, 1)
        object_info_map == traverse(h, bound).map
        visualizables_to_display ==
            [i \in 1..Len(object_info_map) |->
                format_item(h, object_info_map[i], object_info_map)]
    IN SortByKey(visualizables_to_display, Len(visualizables_to_display))

(***************************************************************************)
(* State.                                                                  *)
(***************************************************************************)
VARIABLES
    \* fields of the session (debugger_instance), under their names
    execution_trace, current_step, stdout_buffer, finished, code_lines,
    provided_input_value_for_next_call, all_provided_inputs, next_input_index,
    call_id_counter, call_event_log, active_call_ids_stack,
    logged_call_ids_stack, original_stdout, original_builtins_input, quitting,
    \* process-wide objects the run redirects
    sys_stdout, builtins_input,
    \* the engine: where the request stands, the frames of the running
    \* program (module-level frame first), the exception in flight, whether
    \* the trace function is installed, the program events of this run
    pc, frames, exc, tracing, events,
    \* parameters of the run_debugger call in progress, and how the program
    \* left runcall
    input_to_inject, previous_inputs_list, outcome,
    \* the objects sys.stdout and builtins.input were at entry to run_debugger
    entry_stdout, entry_input,
    \* the prompt of the latest console read that found no value, this run
    blocked_prompt,
    \* requests served, and the response to the latest one
    requests, response,
    \* the list of earlier input values the latest request carried (line
    \* 1023)
    all_previous_inputs,
    \* the identities (addresses) the interpreter gives the objects of the
    \* run in progress
    allocation,
    \* the trace the request before the latest one was answered with, kept
    \* when a given program is run again (<< >> when the program is left
    \* open)
    earlier_trace,
    \* the events the submitted program goes through when it is a given
    \* straight-line program, << >> when the program is left open
    script,
    \* the objects a program has built and the scope that names them, the
    \* graph extract_visualizables returned for them, and whether it was
    \* called
    heap, variables, visualizables_to_display, extracted,
    \* whether that call raised instead of returning
    extraction_error,
    \* a report handed to sanitize_traceback_paths with its flag, the text
    \* returned, and whether the call was made
    traceback_str, originated, sanitized, sanitizer_returned,
    \* the variables of a submission by name: those of its module, those of
    \* the function it is in, and what the last step built from them shows
    f_globals, f_locals, shown,
    \* where each of two calls of run_debugger on the one session stands,
    \* when the caller does not wait for one to return before the next
    overlap

graphVars == <<heap, variables, visualizables_to_display, extracted,
               extraction_error>>
sanitizerVars == <<traceback_str, originated, sanitized, sanitizer_returned>>
displayVars == <<f_globals, f_locals, shown>>
pureVars == <<graphVars, sanitizerVars, displayVars, overlap>>
callVars == <<call_id_counter, call_event_log, active_call_ids_stack,
              logged_call_ids_stack>>
inputVars == <<provided_input_value_for_next_call, all_provided_inputs,
               next_input_index>>
redirectVars == <<sys_stdout, builtins_input, original_stdout,
                  original_builtins_input>>
runVars == <<input_to_inject, previous_inputs_list, code_lines, entry_stdout,
             entry_input, requests, response, script, all_previous_inputs,
             allocation, earlier_trace, pureVars>>
vars == <<execution_trace, current_step, stdout_buffer, finished, code_lines,
          provided_input_value_for_next_call, all_provided_inputs,
          next_input_index, call_id_counter, call_event_log,
          active_call_ids_stack, logged_call_ids_stack, original_stdout,
          original_builtins_input, quitting, sys_stdout, builtins_input, pc,
          frames, exc, tracing, events, input_to_inject, previous_inputs_list,
          outcome, entry_stdout, entry_input, blocked_prompt, requests,
          response, script, all_previous_inputs, allocation, earlier_trace,
          heap, variables,
          visualizables_to_display, extracted, extraction_error,
          traceback_str, originated,
          sanitized, sanitizer_returned, f_globals, f_locals, shown,
          overlap>>

\* the addresses the interpreter may place the objects of a run at: they
\* vary from run to run; under an open program one placement is explored
FirstAddress == "0x7f01"
Addresses == {FirstAddress, "0x7f02"}
Allocatable == IF script = << >> THEN {FirstAddress} ELSE Addresses
\* a new run gets its objects placed
Allocate == allocation' \in Allocatable
\* the caller keeps the trace of the answer it has when it sends the next
\* request
RememberEarlier ==
    earlier_trace' = IF script = << >> THEN << >> ELSE response.trace

HostStdout == "host stdout"
HostInput == "host input"
BufferStdout == "stdout_buffer"
InputMock == "_one_time_input_mock"

\* exceptions: kind, the prompt a blocking-input signal carries, the files
\* of the frames the traceback runs through, the location a syntax error
\* names
NoExc == [kind |-> "none", prompt |-> NoValue, tb |-> << >>, filename |-> NoValue]
Exc(kind, prompt, tb, filename) ==
    [kind |-> kind, prompt |-> prompt, tb |-> tb, filename |-> filename]

NoResponse ==
    [kind |-> "none", trace |-> << >>, finished |-> FALSE, error |-> NoError,
     updated_all_inputs |-> << >>]

CS == [counter |-> call_id_counter, log |-> call_event_log,
       active |-> active_call_ids_stack, logged |-> logged_call_ids_stack]
SetCS(cs) ==
    /\ call_id_counter' = cs.counter
    /\ call_event_log' = cs.log
    /\ active_call_ids_stack' = cs.active
    /\ logged_call_ids_stack' = cs.logged

\* lines 102-131: the session after construction
InitSession ==
    /\ execution_trace = << >> /\ current_step = 0 /\ stdout_buffer = << >>
    /\ finished = FALSE /\ code_lines = << >>
    /\ provided_input_value_for_next_call = NoValue
    /\ all_provided_inputs = << >> /\ next_input_index = 0
    /\ call_id_counter = 0 /\ call_event_log = << >>
    /\ active_call_ids_stack = << >> /\ logged_call_ids_stack = << >>
    /\ original_stdout = HostStdout /\ original_builtins_input = NoValue
    /\ quitting = FALSE
    /\ sys_stdout = HostStdout /\ builtins_input = HostInput
    /\ pc = "idle" /\ frames = << >> /\ exc = NoExc /\ tracing = FALSE
    /\ events = 0
    /\ input_to_inject = NoValue /\ previous_inputs_list = << >>
    /\ outcome = "none"
    /\ entry_stdout = HostStdout /\ entry_input = HostInput
    /\ blocked_prompt = NoValue
    /\ requests = 0 /\ response = NoResponse
    /\ all_previous_inputs = << >>
    /\ allocation = FirstAddress /\ earlier_trace = << >>

\* no object built, every name bound to a number, nothing extracted
InitHeap ==
    /\ heap = << >>
    /\ variables = [n \in {ScopeNames[i] : i \in 1..Len(ScopeNames)} |-> Primitive]
    /\ visualizables_to_display = << >>
    /\ extracted = FALSE
    /\ extraction_error = FALSE

\* no report handed to the sanitizer
InitSanitizer ==
    /\ traceback_str = << >> /\ originated = FALSE
    /\ sanitized = << >> /\ sanitizer_returned = FALSE

\* the submitted program is left open
\* the names a submission gives its variables: an ordinary one, one that is
\* also a name of the tracer's own module, a dunder name
VarNames == {"x", "time", "__name__"}
\* what a name is bound to: nothing, a number, a list, a function
Unbound == "unbound"
Kinds == {Unbound, "number", "list", "function"}

\* lines 104-109
skip_globals_list ==
    {"__builtins__", "app", "Flask", "Bdb", "WebDebugger", "request", "jsonify",
     "render_template", "gc", "deque", "types", "os", "sys", "io", "traceback",
     "inspect", "requests", "json", "re", "remove_think_tag",
     "convert_to_python", "Response", "stream_with_context", "time",
     "clean_code_response", "ast", "sanitize_traceback_paths",
     "WaitingForInputException", "builtins"}

\* lines 668, 672, 820-821: a value shown in a mapping is neither a
\* candidate for the graph nor callable, a module or a class
ShownInMapping(kind) == kind = "number"
\* the names a dict binds
Bound(scope) == {k \in VarNames : scope[k] # Unbound}

\* lines 665-668
locals_display(locals_dict) ==
    {k \in Bound(locals_dict) :
        ~StartsWithDunder(k) /\ ShownInMapping(locals_dict[k])}
\* lines 669-672
globals_display(globals_dict, locals_dict) ==
    {k \in Bound(globals_dict) :
        /\ k \notin Bound(locals_dict) /\ k \notin skip_globals_list
        /\ ~StartsWithDunder(k) /\ ShownInMapping(globals_dict[k])}
\* lines 817-821
module_level_vars_display(final_context_snapshot) ==
    {k \in Bound(final_context_snapshot) :
        /\ k \notin skip_globals_list
        /\ ~StartsWithDunder(k) /\ ShownInMapping(final_context_snapshot[k])}
\* line 662: {**globals_dict, **locals_dict}
current_context(globals_dict, locals_dict) ==
    [k \in VarNames |->
        IF locals_dict[k] # Unbound THEN locals_dict[k] ELSE globals_dict[k]]
\* lines 261-285, 358-360: the names the nodes of the graph are shown under
node_names(context) ==
    {k \in Bound(context) : ~StartsWithDunder(k) /\ context[k] = "list"}

\* what a step shows of the variables: `at` is the frame of the step, or
\* "final" for the last step of a completed run
Display(at, locals, globals, nodes) ==
    [at |-> at, locals |-> locals, globals |-> globals, nodes |-> nodes]
InitDisplay ==
    /\ f_globals = [k \in VarNames |-> Unbound]
    /\ f_locals = [k \in VarNames |-> Unbound]
    /\ shown = Display("none", {}, {}, {})

\* the two calls, and where a call stands: not made yet, then after each of
\* the statements of run_debugger that touch the redirection.  `during`
\* remembers whether the other call had the output redirected, and not yet
\* restored, when this one was entered.
Calls == {1, 2}
Call(at, during) == [at |-> at, during |-> during]
InitOverlap == overlap = [c \in Calls |-> Call("idle", FALSE)]

Init == InitSession /\ InitHeap /\ InitSanitizer /\ InitDisplay
        /\ InitOverlap /\ script = << >>

(***************************************************************************)
(* The /debug route up to the call of run_debugger, and run_debugger up to *)
(* the start of the program.                                               *)
(***************************************************************************)
\* the requests and the program events explored: the bounds of the model,
\* or what a scripted program needs to run to its end
RunBudget == IF script = << >> THEN MaxRuns ELSE Len(script) + 1
EventBudget == IF script = << >> THEN MaxEvents ELSE Len(script)

\* a faulty FinalCode, under which a continuation runs the text it carries
FinalCode_of_request(code, is_continuation) == code

\* lines 1028, 1038-1050: the text the request will run
FinalCode(code, is_continuation) ==
    IF is_continuation /\ code_lines # << >> THEN JoinLines(code_lines) ELSE code

\* a faulty HistoryForRun, under which a new run keeps the input history of
\* the session
HistoryForRun_kept(is_continuation) == all_provided_inputs

\* lines 1029-1032, 1054: the input history handed to run_debugger
HistoryForRun(is_continuation) ==
    IF is_continuation THEN all_provided_inputs ELSE << >>

\* lines 133-150 and 742-751: reset, then the parameters and the redirection
EnterRunDebugger(final_code, injected, prev) ==
    /\ current_step' = 0 /\ stdout_buffer' = << >>
    /\ code_lines' = splitlines(final_code)
    /\ all_provided_inputs' = prev /\ next_input_index' = 0
    /\ provided_input_value_for_next_call' = injected
    /\ call_id_counter' = 0 /\ call_event_log' = << >>
    /\ active_call_ids_stack' = << >> /\ logged_call_ids_stack' = << >>
    /\ entry_stdout' = sys_stdout /\ entry_input' = builtins_input
    /\ input_to_inject' = injected /\ previous_inputs_list' = prev
    /\ blocked_prompt' = NoValue
    /\ requests' = requests + 1

\* lines 1059-1064, 1093-1094: the response to a run that returned `trace`
RunResponse(trace, session_finished, inputs) ==
    LET is_waiting_for_input ==
            trace # << >> /\ Last(trace).input_request # NoValue
    IN [kind |-> "run", trace |-> trace,
        finished |-> session_finished /\ ~is_waiting_for_input,
        error |-> IF trace # << >> /\ Last(trace).error # NoError
                  THEN Last(trace).error
                  ELSE IF Len(trace) = 1 THEN trace[1].error ELSE NoError,
        updated_all_inputs |-> inputs]

\* lines 1073-1081, 1093-1094: run_debugger raised an Exception into debug
CrashResponse(inputs) ==
    LET error_message == sanitize_traceback_paths(ServerErrorReport, FALSE)
    IN [kind |-> "crash",
        trace |-> RouteErrorTrace("Internal Server Error", error_message),
        finished |-> TRUE, error |-> error_message,
        updated_all_inputs |-> inputs]

\* the mutant of SetupResponse without line 1067
SetupResponse_unfinished(inputs) ==
    LET error_message == <<TextLine("Error: setup")>>
    IN [kind |-> "setup",
        trace |-> RouteErrorTrace("Error Setup/Conversion", error_message),
        finished |-> FALSE, error |-> error_message,
        updated_all_inputs |-> inputs]

\* lines 1065-1072, 1093-1094
SetupResponse(inputs) ==
    LET error_message == <<TextLine("Error: setup")>>
    IN [kind |-> "setup",
        trace |-> RouteErrorTrace("Error Setup/Conversion", error_message),
        finished |-> TRUE, error |-> error_message,
        updated_all_inputs |-> inputs]

\* a BaseException left run_debugger and debug: the route returns nothing
EscapedResponse == [NoResponse EXCEPT !.kind = "escaped"]

\* lines 1029-1053, 1065-1072: translation failed, or there is nothing to run
DebugSetupFailure(code, is_continuation, translation_fails, passed) ==
    /\ pc = "idle" /\ requests < RunBudget
    /\ all_previous_inputs' = passed
    /\ RememberEarlier /\ UNCHANGED allocation
    /\ \/ translation_fails /\ ~is_continuation
       \/ IsBlank(FinalCode(code, is_continuation))
    /\ requests' = requests + 1
    /\ response' = SetupResponse(HistoryForRun(is_continuation))
    /\ outcome' = "none"
    /\ IF is_continuation
       THEN UNCHANGED <<execution_trace, current_step, stdout_buffer, finished,
                        code_lines, inputVars, callVars, original_stdout,
                        original_builtins_input, quitting, blocked_prompt>>
       ELSE /\ execution_trace' = << >> /\ current_step' = 0
            /\ stdout_buffer' = << >> /\ finished' = FALSE
            /\ code_lines' = << >>
            /\ provided_input_value_for_next_call' = NoValue
            /\ all_provided_inputs' = << >> /\ next_input_index' = 0
            /\ call_id_counter' = 0 /\ call_event_log' = << >>
            /\ active_call_ids_stack' = << >> /\ logged_call_ids_stack' = << >>
            /\ original_stdout' = sys_stdout
            /\ original_builtins_input' = NoValue
            /\ quitting' = FALSE /\ blocked_prompt' = NoValue
    /\ UNCHANGED <<sys_stdout, builtins_input, pc, frames, exc, tracing, events,
                   input_to_inject, previous_inputs_list, entry_stdout,
                   entry_input, script, pureVars>>

\* lines 741-759 with a source that does not compile, then the except clause
\* (767-801), the finally clause (802-862) and the rest of debug: no hook
\* runs, so the whole request is one step
DebugCompileFailure(code, is_continuation, injected, passed) ==
    LET final_code == FinalCode(code, is_continuation)
        prev == HistoryForRun(is_continuation)
        result == CompileResult(final_code)
        error_info ==
            IF result = "SyntaxError"
            THEN SyntaxErrorInfo(<< >>, << >>, << >>, UserFile)
            ELSE RuntimeErrorInfo(<< >>, 0, << >>, << >>, << >>, <<DebuggerPath>>)
        trace == FinalizeError(<< >>, error_info, result = "SyntaxError",
                               << >>, << >>, << >>, allocation)
    IN /\ pc = "idle" /\ requests < RunBudget
       /\ ~IsBlank(final_code) /\ result # "ok"
       /\ all_previous_inputs' = passed
       /\ RememberEarlier /\ UNCHANGED allocation
       /\ EnterRunDebugger(final_code, injected, prev)
       /\ execution_trace' = trace
       /\ finished' = TRUE
       /\ quitting' = FALSE
       /\ original_stdout' = sys_stdout
       /\ original_builtins_input' = NoValue
       /\ outcome' = "compile"
       /\ response' = RunResponse(trace, TRUE, prev)
       /\ UNCHANGED <<sys_stdout, builtins_input, pc, frames, exc, tracing, events,
                      script, pureVars>>

\* a faulty DebugStart, under which the engine hands the call event of the
\* module-level frame of the submission to user_call like any other
DebugStart_entry_dispatched(code, is_continuation, injected, passed) ==
    LET final_code == FinalCode(code, is_continuation)
        prev == HistoryForRun(is_continuation)
        fresh == [counter |-> 0, log |-> << >>, active |-> << >>, logged |-> << >>]
    IN /\ pc = "idle" /\ requests < RunBudget
       /\ ~IsBlank(final_code) /\ CompileResult(final_code) = "ok"
       /\ all_previous_inputs' = passed
       /\ RememberEarlier /\ Allocate
       /\ current_step' = 0 /\ stdout_buffer' = << >>
       /\ code_lines' = splitlines(final_code)
       /\ all_provided_inputs' = prev /\ next_input_index' = 0
       /\ provided_input_value_for_next_call' = injected
       /\ SetCS(user_call(fresh, ModuleFrame, 0, FALSE))
       /\ entry_stdout' = sys_stdout /\ entry_input' = builtins_input
       /\ input_to_inject' = injected /\ previous_inputs_list' = prev
       /\ blocked_prompt' = NoValue
       /\ requests' = requests + 1
       /\ execution_trace' = << >>
       /\ finished' = FALSE
       /\ quitting' = FALSE
       /\ original_stdout' = sys_stdout /\ sys_stdout' = BufferStdout
       /\ original_builtins_input' = builtins_input /\ builtins_input' = InputMock
       /\ pc' = "running" /\ frames' = <<ModuleFrame>> /\ exc' = NoExc
       /\ tracing' = TRUE /\ events' = 0
       /\ outcome' = "none"
       /\ response' = NoResponse
       /\ UNCHANGED <<script, pureVars>>

\* lines 741-759 with a source that compiles: Bdb.runcall resets the engine,
\* installs the trace function and enters the program.  The first call
\* event (the module-level frame of the submission) only sets Bdb's
\* botframe: dispatch_call does not hand it to user_call.
DebugStart(code, is_continuation, injected, passed) ==
    LET final_code == FinalCode(code, is_continuation)
        prev == HistoryForRun(is_continuation)
    IN /\ pc = "idle" /\ requests < RunBudget
       /\ ~IsBlank(final_code) /\ CompileResult(final_code) = "ok"
       /\ all_previous_inputs' = passed
       /\ RememberEarlier /\ Allocate
       /\ EnterRunDebugger(final_code, injected, prev)
       /\ execution_trace' = << >>
       /\ finished' = FALSE
       /\ quitting' = FALSE
       /\ original_stdout' = sys_stdout /\ sys_stdout' = BufferStdout
       /\ original_builtins_input' = builtins_input /\ builtins_input' = InputMock
       /\ pc' = "running" /\ frames' = <<ModuleFrame>> /\ exc' = NoExc
       /\ tracing' = TRUE /\ events' = 0
       /\ outcome' = "none"
       /\ response' = NoResponse
       /\ UNCHANGED <<script, pureVars>>

(***************************************************************************)
(* The running program and the hooks its events trigger.                   *)
(***************************************************************************)
\* the program is between two events of an executing frame
CanAct == pc = "running" /\ exc = NoExc /\ events < EventBudget
                         /\ Last(frames).started

\* a faulty ProgLine, under which user_line records the line of any frame,
\* whatever file it belongs to (lines 656-658 left out)
ProgLine_any_frame(capture_fails) ==
    LET f == Last(frames)
        recorded == tracing
        error_step == LineErrorStep(current_step, stdout_buffer,
                                    call_event_log, logged_call_ids_stack)
    IN /\ pc = "running" /\ events < EventBudget
       /\ exc # NoExc => f.started
       /\ events' = events + 1
       /\ frames' = [frames EXCEPT ![Len(frames)].started = TRUE]
       /\ IF recorded /\ capture_fails
          THEN \* lines 721-737, then dispatch_line raises BdbQuit into the
               \* program, which uninstalls the trace function
               /\ execution_trace' =
                    IF execution_trace = << >>
                       \/ Last(execution_trace).error # error_step.error
                    THEN Append(execution_trace, error_step)
                    ELSE execution_trace
               /\ current_step' = current_step + 1
               /\ quitting' = TRUE /\ tracing' = FALSE
               /\ exc' = Exc("BdbQuit", NoValue, << >>, NoValue)
          ELSE /\ IF recorded
                  THEN /\ execution_trace' = Append(execution_trace,
                              LineStep(current_step, stdout_buffer, call_event_log,
                                       logged_call_ids_stack, frames,
                                       allocation))
                       /\ current_step' = current_step + 1
                  ELSE UNCHANGED <<execution_trace, current_step>>
               /\ UNCHANGED <<quitting, tracing, exc>>
       /\ UNCHANGED <<stdout_buffer, finished, inputVars, callVars, redirectVars,
                      pc, outcome, blocked_prompt, runVars>>

\* lines 650-739, reached through Bdb.dispatch_line.  capture_fails: the
\* capture of the step (lines 660-716) raises.  A frame that is not the
\* submission's only re-arms stepping.  A line also runs while an exception
\* unwinds (a finally clause, the exit of a with block).
ProgLine(capture_fails) ==
    LET f == Last(frames)
        recorded == tracing /\ IsUserCode(f) /\ ~IsDebuggerInternal(f)
                    /\ ~IsBdbInternal(f)
        error_step == LineErrorStep(current_step, stdout_buffer,
                                    call_event_log, logged_call_ids_stack)
    IN /\ pc = "running" /\ events < EventBudget
       /\ exc # NoExc => f.started
       /\ events' = events + 1
       /\ frames' = [frames EXCEPT ![Len(frames)].started = TRUE]
       /\ IF recorded /\ capture_fails
          THEN \* lines 721-737, then dispatch_line raises BdbQuit into the
               \* program, which uninstalls the trace function
               /\ execution_trace' =
                    IF execution_trace = << >>
                       \/ Last(execution_trace).error # error_step.error
                    THEN Append(execution_trace, error_step)
                    ELSE execution_trace
               /\ current_step' = current_step + 1
               /\ quitting' = TRUE /\ tracing' = FALSE
               /\ exc' = Exc("BdbQuit", NoValue, << >>, NoValue)
          ELSE /\ IF recorded
                  THEN /\ execution_trace' = Append(execution_trace,
                              LineStep(current_step, stdout_buffer, call_event_log,
                                       logged_call_ids_stack, frames,
                                       allocation))
                       /\ current_step' = current_step + 1
                  ELSE UNCHANGED <<execution_trace, current_step>>
               /\ UNCHANGED <<quitting, tracing, exc>>
       /\ UNCHANGED <<stdout_buffer, finished, inputVars, callVars, redirectVars,
                      pc, outcome, blocked_prompt, runVars>>

\* the program calls into frame f: Bdb.dispatch_call runs user_call
ProgCall(f, args_fail) ==
    /\ CanAct /\ Len(frames) <= MaxDepth
    /\ events' = events + 1
    /\ frames' = Append(frames, [f EXCEPT !.id = IF tracing THEN call_id_counter + 1
                                                            ELSE NoId])
    /\ IF tracing THEN SetCS(user_call(CS, f, current_step, args_fail))
                  ELSE UNCHANGED callVars
    /\ UNCHANGED <<execution_trace, current_step, stdout_buffer, finished,
                   inputVars, redirectVars, quitting, pc, exc, tracing, outcome,
                   blocked_prompt, runVars>>

\* a frame above the module-level one returns a value:
\* Bdb.dispatch_return runs user_return
ProgReturn(repr_fails) ==
    /\ pc = "running" /\ exc = NoExc /\ Len(frames) > 1
    /\ Last(frames).started
    /\ frames' = Front(frames)
    /\ IF tracing THEN SetCS(user_return(CS, Last(frames), current_step, repr_fails))
                  ELSE UNCHANGED callVars
    /\ UNCHANGED <<execution_trace, current_step, stdout_buffer, finished,
                   inputVars, redirectVars, quitting, pc, exc, tracing, events,
                   outcome, blocked_prompt, runVars>>

\* print() writes to whatever sys.stdout is
ProgPrint ==
    /\ CanAct
    /\ events' = events + 1
    /\ stdout_buffer' = IF sys_stdout = BufferStdout
                        THEN Append(stdout_buffer, "out") ELSE stdout_buffer
    /\ UNCHANGED <<execution_trace, current_step, finished, inputVars, callVars,
                   redirectVars, quitting, pc, frames, exc, tracing, outcome,
                   blocked_prompt, runVars>>

\* a faulty one_time_input_mock, which appends a replayed value to the
\* history again
one_time_input_mock_reappend(history, index, staged_value) ==
    IF index < Len(history)
    THEN [kind |-> "replay", val_to_return |-> history[index + 1],
          history |-> Append(history, history[index + 1]),
          index |-> index + 1, staged |-> staged_value]
    ELSE IF staged_value # NoValue
    THEN [kind |-> "staged", val_to_return |-> staged_value,
          history |-> Append(history, staged_value),
          index |-> Len(history) + 1, staged |-> NoValue]
    ELSE [kind |-> "blocked", val_to_return |-> NoValue,
          history |-> history, index |-> index, staged |-> staged_value]

\* lines 157-176: what a console read does to the input state, given the
\* history, the replay index and the staged value: the value it returns (or
\* that it blocks) and the input state it leaves
one_time_input_mock(history, index, staged_value) ==
    IF index < Len(history)
    THEN [kind |-> "replay", val_to_return |-> history[index + 1],
          history |-> history, index |-> index + 1, staged |-> staged_value]
    ELSE IF staged_value # NoValue
    THEN [kind |-> "staged", val_to_return |-> staged_value,
          history |-> Append(history, staged_value),
          index |-> Len(history) + 1, staged |-> NoValue]
    ELSE [kind |-> "blocked", val_to_return |-> NoValue,
          history |-> history, index |-> index, staged |-> staged_value]

\* lines 152-176: builtins.input is the mock for the length of the run.  The
\* mock, _custom_input_handler and the constructor of the blocking-input
\* signal are Python frames of the tracer's file, so while the trace
\* function is installed each of them passes through user_call and
\* user_return like any other frame.
ProgInput(prompt) ==
    LET read == one_time_input_mock(all_provided_inputs, next_input_index,
                                    provided_input_value_for_next_call)
        in_mock == user_call(CS, MockFrame, current_step, FALSE)
        served == user_return(in_mock, MockFrame, current_step, FALSE)
        in_handler == user_call(in_mock, HandlerFrame, current_step, FALSE)
        in_init == user_call(in_handler, SignalInitFrame, current_step, FALSE)
        raised == user_return(in_init, SignalInitFrame, current_step, FALSE)
        left_handler == user_return(raised, HandlerFrame, current_step, FALSE)
        blocked == user_return(left_handler, MockFrame, current_step, FALSE)
    IN /\ CanAct /\ builtins_input = InputMock
       /\ events' = events + 1
       /\ all_provided_inputs' = read.history
       /\ next_input_index' = read.index
       /\ provided_input_value_for_next_call' = read.staged
       /\ IF read.kind = "blocked"
          THEN \* lines 176, 152-155, 95-98
               /\ stdout_buffer' = Append(stdout_buffer, prompt)
               /\ exc' = Exc("Waiting", prompt, TracebackOf(frames), NoValue)
               /\ blocked_prompt' = prompt
          ELSE \* lines 160-162, 169-171
               /\ stdout_buffer' = stdout_buffer \o <<prompt, read.val_to_return>>
               /\ UNCHANGED <<exc, blocked_prompt>>
       /\ IF tracing
          THEN SetCS(IF read.kind = "blocked" THEN blocked ELSE served)
          ELSE UNCHANGED callVars
       /\ UNCHANGED <<execution_trace, current_step, finished, redirectVars,
                      quitting, pc, frames, tracing, outcome, runVars>>

\* the kinds of exception the program raises of its own: an ordinary one, a
\* syntax-class one (exec, eval, compile or import of a bad text, or a raise
\* statement), and one outside the Exception hierarchy (SystemExit,
\* KeyboardInterrupt)
RaisedKinds == {"Exception", "SyntaxError", "BaseException"}
\* the location a syntax-class exception names
SyntaxLocations == {UserFile, ExternalPath}
\* what a raise is: its kind and the location it names
Raisable ==
    {r \in RaisedKinds \X (SyntaxLocations \cup {NoValue}) :
        (r[1] = "SyntaxError") <=> (r[2] # NoValue)}

ProgRaise(kind, filename) ==
    /\ CanAct
    /\ events' = events + 1
    /\ exc' = Exc(kind, NoValue, TracebackOf(frames), filename)
    /\ UNCHANGED <<execution_trace, current_step, stdout_buffer, finished,
                   inputVars, callVars, redirectVars, quitting, pc, frames,
                   tracing, outcome, blocked_prompt, runVars>>

\* the innermost frame handles the exception in flight (an except clause
\* that matches it, a context manager that suppresses it) and the program
\* goes on
ProgCatch ==
    /\ pc = "running" /\ exc # NoExc
    /\ exc' = NoExc
    /\ UNCHANGED <<execution_trace, current_step, stdout_buffer, finished,
                   inputVars, callVars, redirectVars, quitting, pc, frames,
                   tracing, events, outcome, blocked_prompt, runVars>>

\* lines 759 and bdb.Bdb.runcall: the exception leaves the innermost frame,
\* which fires its return hook; leaving the module-level frame ends runcall
ProgUnwind ==
    /\ pc = "running" /\ exc # NoExc
    /\ frames' = Front(frames)
    /\ IF tracing THEN SetCS(user_return(CS, Last(frames), current_step, FALSE))
                  ELSE UNCHANGED callVars
    /\ IF Len(frames) = 1
       THEN /\ pc' = "exited" /\ outcome' = exc.kind
            /\ quitting' = TRUE /\ tracing' = FALSE
       ELSE UNCHANGED <<pc, outcome, quitting, tracing>>
    /\ UNCHANGED <<execution_trace, current_step, stdout_buffer, finished,
                   inputVars, redirectVars, exc, events, blocked_prompt, runVars>>

\* the module-level frame returns: the program is over
ProgExit ==
    /\ pc = "running" /\ exc = NoExc /\ Len(frames) = 1
    /\ Last(frames).started
    /\ frames' = << >>
    /\ IF tracing THEN SetCS(user_return(CS, Last(frames), current_step, FALSE))
                  ELSE UNCHANGED callVars
    /\ pc' = "exited" /\ outcome' = "normal"
    /\ quitting' = TRUE /\ tracing' = FALSE
    /\ UNCHANGED <<execution_trace, current_step, stdout_buffer, finished,
                   inputVars, redirectVars, exc, events, blocked_prompt, runVars>>

(***************************************************************************)
(* run_debugger after runcall: the except clauses, the finally clause, and *)
(* the rest of the /debug route.                                           *)
(***************************************************************************)
\* lines 760-862.  final_fails: the final rendering of the module scope
\* (lines 808-821) raises, which leaves run_debugger as an Exception.
FinalTrace(final_fails) ==
    LET waiting == outcome = "Waiting"
        is_syntax == outcome = "SyntaxError"
        error_occurred == outcome \in {"SyntaxError", "Exception"}
        after_except ==
            IF waiting
            THEN FinalizeWaiting(execution_trace, exc.prompt, stdout_buffer)
            ELSE execution_trace
        error_info ==
            IF is_syntax
            THEN SyntaxErrorInfo(stdout_buffer, call_event_log,
                                 logged_call_ids_stack, exc.filename)
            ELSE RuntimeErrorInfo(execution_trace, current_step, stdout_buffer,
                                  call_event_log, logged_call_ids_stack, exc.tb)
    IN IF final_fails \/ waiting THEN after_except
       ELSE IF error_occurred
            THEN FinalizeError(execution_trace, error_info, is_syntax,
                               stdout_buffer, call_event_log,
                               logged_call_ids_stack, allocation)
            ELSE FinalizeNormal(execution_trace, current_step, stdout_buffer,
                                call_event_log, allocation)

\* lines 766, 806
FinishedAfterRun == outcome # "Waiting"

\* a faulty RestoreRedirection, which puts back the output stream only
RestoreRedirection_stdout_only ==
    /\ sys_stdout' = original_stdout
    /\ original_builtins_input' = NoValue
    /\ UNCHANGED <<builtins_input, original_stdout>>

\* lines 803-804
RestoreRedirection ==
    /\ sys_stdout' = original_stdout
    /\ builtins_input' = IF original_builtins_input # NoValue
                         THEN original_builtins_input ELSE builtins_input
    /\ original_builtins_input' = NoValue
    /\ UNCHANGED original_stdout

\* lines 1057-1094: what the route answers
ResponseAfterRun(final_fails) ==
    IF final_fails THEN CrashResponse(all_provided_inputs)
    ELSE IF outcome = "BaseException" THEN EscapedResponse
    ELSE RunResponse(FinalTrace(final_fails), FinishedAfterRun, all_provided_inputs)

RunEnd(final_fails) ==
    /\ pc = "exited"
    /\ final_fails => events > 0
    /\ execution_trace' = FinalTrace(final_fails)
    /\ finished' = FinishedAfterRun
    /\ RestoreRedirection
    /\ response' = ResponseAfterRun(final_fails)
    /\ pc' = "idle" /\ exc' = NoExc
    /\ UNCHANGED <<current_step, stdout_buffer, code_lines, inputVars, callVars,
                   quitting, frames, tracing, events, input_to_inject,
                   previous_inputs_list, outcome, entry_stdout, entry_input,
                   blocked_prompt, requests, script, all_previous_inputs,
                   allocation, earlier_trace, pureVars>>

\* what a request may carry as its injected value
Injectable == {NoValue, ValueOf(requests + 1)}
\* the list of earlier input values a request carries when the caller
\* passes back what the latest response handed out (a request that got no
\* response leaves the caller with the list it sent)
PassedBack ==
    IF response.kind = "escaped" THEN all_previous_inputs
    ELSE response.updated_all_inputs
\* the lists a caller may send: that one, or a list of its own
Passable == {PassedBack, <<"w">>}

Next ==
    \/ \E code \in Sources, c \in BOOLEAN, t \in BOOLEAN :
            DebugSetupFailure(code, c, t, PassedBack)
    \/ \E code \in Sources, c \in BOOLEAN, v \in Injectable :
            DebugCompileFailure(code, c, v, PassedBack)
    \/ \E code \in Sources, c \in BOOLEAN, v \in Injectable :
            DebugStart(code, c, v, PassedBack)
    \/ \E b \in BOOLEAN : ProgLine(b)
    \/ \E f \in CallableFrames, b \in BOOLEAN : ProgCall(f, b)
    \/ \E b \in BOOLEAN : ProgReturn(b)
    \/ ProgPrint
    \/ \E p \in Prompts : ProgInput(p)
    \/ \E r \in Raisable : ProgRaise(r[1], r[2])
    \/ ProgCatch
    \/ ProgUnwind
    \/ ProgExit
    \/ \E b \in BOOLEAN : RunEnd(b)

Spec == Init /\ [][Next]_vars

(***************************************************************************)
(* A given program driven by the resume protocol.  The program is          *)
(* deterministic and straight-line: a fixed sequence of events at module   *)
(* level, each a line, a print or a console read; a read is either bare or *)
(* guarded by a handler for Exception (try/except Exception around it).    *)
(* The caller sends a fresh request without an injected value, then, as    *)
(* long as the response says unfinished, a continuation that injects one   *)
(* value.                                                                  *)
(***************************************************************************)
ScriptEvent(op, prompt, guarded) == [op |-> op, prompt |-> prompt, guarded |-> guarded]
ScriptEvents ==
    {ScriptEvent("line", NoValue, FALSE), ScriptEvent("print", NoValue, FALSE)}
    \cup {ScriptEvent("read", p, g) : p \in Prompts, g \in BOOLEAN}
\* a program starts with a line
Scripts ==
    {s \in UNION {[1..n -> ScriptEvents] : n \in 1..MaxScript} : s[1].op = "line"}

InitScript == InitSession /\ InitHeap /\ InitSanitizer /\ InitDisplay /\ InitOverlap /\ script \in Scripts

\* the event the program is at
AtEvent(op) ==
    /\ pc = "running" /\ exc = NoExc /\ events < Len(script)
    /\ script[events + 1].op = op

ScriptRequest ==
    /\ requests = 0 \/ ~response.finished
    /\ DebugStart(SrcGood, requests > 0,
                  IF requests = 0 THEN NoValue ELSE ValueOf(requests + 1),
                  PassedBack)
ScriptLine == AtEvent("line") /\ ProgLine(FALSE)
ScriptPrint == AtEvent("print") /\ ProgPrint
ScriptRead == AtEvent("read") /\ ProgInput(script[events + 1].prompt)
ScriptCatch == exc # NoExc /\ script[events].guarded /\ ProgCatch
ScriptUnwind == exc # NoExc /\ ~script[events].guarded /\ ProgUnwind
ScriptExit == events = Len(script) /\ ProgExit
ScriptRunEnd == RunEnd(FALSE)

ScriptNext ==
    \/ ScriptRequest
    \/ ScriptLine
    \/ ScriptPrint
    \/ ScriptRead
    \/ ScriptCatch
    \/ ScriptUnwind
    \/ ScriptExit
    \/ ScriptRunEnd

SpecScript == InitScript /\ [][ScriptNext]_vars

(***************************************************************************)
(* A given straight-line program submitted twice, each time as a new run   *)
(* (which resets the session), with the same injected value.               *)
(***************************************************************************)
TwiceRequest ==
    /\ requests < 2
    /\ DebugStart(SrcGood, FALSE, ValueOf(1), PassedBack)

TwiceNext ==
    \/ TwiceRequest
    \/ ScriptLine
    \/ ScriptPrint
    \/ ScriptRead
    \/ ScriptCatch
    \/ ScriptUnwind
    \/ ScriptExit
    \/ ScriptRunEnd

SpecTwice == InitScript /\ [][TwiceNext]_vars

(***************************************************************************)
(* The open program under a caller that sends any list of earlier input    *)
(* values with a request, not only the one it was handed.                  *)
(***************************************************************************)
CallerNext ==
    \/ \E code \in Sources, c \in BOOLEAN, t \in BOOLEAN, l \in Passable :
            DebugSetupFailure(code, c, t, l)
    \/ \E code \in Sources, c \in BOOLEAN, v \in Injectable, l \in Passable :
            DebugCompileFailure(code, c, v, l)
    \/ \E code \in Sources, c \in BOOLEAN, v \in Injectable, l \in Passable :
            DebugStart(code, c, v, l)
    \/ \E b \in BOOLEAN : ProgLine(b)
    \/ \E f \in CallableFrames, b \in BOOLEAN : ProgCall(f, b)
    \/ \E b \in BOOLEAN : ProgReturn(b)
    \/ ProgPrint
    \/ \E p \in Prompts : ProgInput(p)
    \/ \E r \in Raisable : ProgRaise(r[1], r[2])
    \/ ProgCatch
    \/ ProgUnwind
    \/ ProgExit
    \/ \E b \in BOOLEAN : RunEnd(b)

SpecCaller == Init /\ [][CallerNext]_vars

\* the deepest chain of frames the program of the deep runs builds
MaxChain == 8
\* frames entered by a call in a deep run: a function of the submission, a
\* library function that calls back into the submission, an engine function
DeepFrames ==
    {Frame(UserFile, "f"), Frame(StdlibPath, "encode"), Frame(BdbPath, "set_trace")}

\* lines 741-759: the request that starts the deep run
DeepStart ==
    /\ requests = 0
    /\ DebugStart(SrcGood, FALSE, NoValue, PassedBack)

\* lines 593-618, reached through Bdb.dispatch_call: the innermost frame
\* calls into frame f
DeepCall(f) ==
    /\ pc = "running" /\ exc = NoExc /\ Last(frames).started
    /\ Len(frames) < MaxChain
    /\ frames' = Append(frames, [f EXCEPT !.id = call_id_counter + 1])
    /\ SetCS(user_call(CS, f, current_step, FALSE))
    /\ UNCHANGED <<execution_trace, current_step, stdout_buffer, finished,
                   inputVars, redirectVars, quitting, pc, exc, tracing, events,
                   outcome, blocked_prompt, runVars>>

\* lines 650-718, reached through Bdb.dispatch_line: the first line of the
\* innermost frame
DeepLine ==
    LET f == Last(frames)
    IN /\ pc = "running" /\ exc = NoExc /\ ~f.started
       /\ frames' = [frames EXCEPT ![Len(frames)].started = TRUE]
       /\ IF IsUserCode(f) /\ ~IsDebuggerInternal(f) /\ ~IsBdbInternal(f)
          THEN /\ execution_trace' = Append(execution_trace,
                      LineStep(current_step, stdout_buffer, call_event_log,
                               logged_call_ids_stack, frames, allocation))
               /\ current_step' = current_step + 1
          ELSE UNCHANGED <<execution_trace, current_step>>
       /\ UNCHANGED <<stdout_buffer, finished, inputVars, callVars, redirectVars,
                      quitting, pc, exc, tracing, events, outcome, blocked_prompt,
                      runVars>>

DeepNext ==
    \/ DeepStart
    \/ \E f \in DeepFrames : DeepCall(f)
    \/ DeepLine

SpecDeep == Init /\ [][DeepNext]_vars

(***************************************************************************)
(* A program that builds objects and binds names to them, and one call of  *)
(* extract_visualizables on the scope it has built.                         *)
(***************************************************************************)
\* the variables of the session and of the engine
SessionVars ==
    <<execution_trace, current_step, stdout_buffer, finished, quitting, pc,
      frames, exc, tracing, events, outcome, blocked_prompt, callVars,
      inputVars, redirectVars, input_to_inject, previous_inputs_list,
      code_lines, entry_stdout, entry_input, requests, response, script,
      all_previous_inputs, allocation, earlier_trace>>

\* the fields, elements and entries of the heap
Slots == LET RECURSIVE Sum(_)
             Sum(n) == IF n = 0 THEN 0 ELSE Len(heap[n].items) + Sum(n - 1)
         IN Sum(Len(heap))

\* x = [], x = {}, x = C(): a new object, without any name yet
NewObject(type) ==
    /\ ~extracted /\ Len(heap) < MaxObjects
    /\ heap' = Append(heap, HeapObject(type, << >>))
    /\ UNCHANGED <<variables, visualizables_to_display, extracted,
                   extraction_error>>
    /\ UNCHANGED <<SessionVars, sanitizerVars, displayVars, overlap>>

\* o.append(v), o[k] = v, o.f = v: one more element, entry or field
Store(o, v) ==
    /\ ~extracted /\ Slots < MaxSlots
    /\ heap' = [heap EXCEPT ![o].items = Append(@, v)]
    /\ UNCHANGED <<variables, visualizables_to_display, extracted,
                   extraction_error>>
    /\ UNCHANGED <<SessionVars, sanitizerVars, displayVars, overlap>>

\* name = v
Bind(name, v) ==
    /\ ~extracted /\ variables[name] # v
    /\ variables' = [variables EXCEPT ![name] = v]
    /\ UNCHANGED <<heap, visualizables_to_display, extracted,
                   extraction_error>>
    /\ UNCHANGED <<SessionVars, sanitizerVars, displayVars, overlap>>

\* lines 663, 810: the call on the scope
ExtractVisualizables ==
    /\ ~extracted
    /\ extraction_error' = extraction_raises(heap, variables)
    /\ visualizables_to_display' =
          IF extraction_raises(heap, variables) THEN << >>
          ELSE extract_visualizables(heap, variables)
    /\ extracted' = TRUE
    /\ UNCHANGED <<heap, variables>>
    /\ UNCHANGED <<SessionVars, sanitizerVars, displayVars, overlap>>

GraphNext ==
    \/ \E t \in ObjectTypes : NewObject(t)
    \/ \E o \in 1..Len(heap), v \in 0..Len(heap) :
            Store(o, v)
    \/ \E i \in 1..Len(ScopeNames), v \in 0..Len(heap) :
            Bind(ScopeNames[i], v)
    \/ ExtractVisualizables

SpecGraph == Init /\ [][GraphNext]_vars

\* name = value at module level, or del name, before the step looked at
AssignGlobal(k, kind) ==
    /\ shown.at = "none" /\ f_globals[k] # kind
    /\ f_globals' = [f_globals EXCEPT ![k] = kind]
    /\ UNCHANGED <<f_locals, shown>>
    /\ UNCHANGED <<SessionVars, graphVars, sanitizerVars, overlap>>

\* name = value inside the function, or del name
AssignLocal(k, kind) ==
    /\ shown.at = "none" /\ f_locals[k] # kind
    /\ f_locals' = [f_locals EXCEPT ![k] = kind]
    /\ UNCHANGED <<f_globals, shown>>
    /\ UNCHANGED <<SessionVars, graphVars, sanitizerVars, overlap>>

\* lines 660-672: the step of a line.  The f_locals of the module frame is
\* its f_globals.
ShowLine(in_function) ==
    LET locals_dict == IF in_function THEN f_locals ELSE f_globals
        globals_dict == f_globals
    IN /\ shown.at = "none"
       /\ shown' = Display(IF in_function THEN "function" ELSE "module",
                           locals_display(locals_dict),
                           globals_display(globals_dict, locals_dict),
                           node_names(current_context(globals_dict,
                                                      locals_dict)))
       /\ UNCHANGED <<f_globals, f_locals>>
       /\ UNCHANGED <<SessionVars, graphVars, sanitizerVars, overlap>>

\* lines 808-821, 851-854: the last step of a run that completed
ShowFinal ==
    /\ shown.at = "none"
    /\ shown' = Display("final", module_level_vars_display(f_globals), {},
                        node_names(f_globals))
    /\ UNCHANGED <<f_globals, f_locals>>
    /\ UNCHANGED <<SessionVars, graphVars, sanitizerVars, overlap>>

DisplayNext ==
    \/ \E k \in VarNames, kind \in Kinds : AssignGlobal(k, kind)
    \/ \E k \in VarNames, kind \in Kinds : AssignLocal(k, kind)
    \/ \E in_function \in BOOLEAN : ShowLine(in_function)
    \/ ShowFinal

SpecDisplay == Init /\ [][DisplayNext]_vars

\* what the statements of run_debugger that touch the redirection leave
\* alone
OverlapRest ==
    <<execution_trace, current_step, stdout_buffer, quitting, pc, frames, exc,
      tracing, events, outcome, blocked_prompt, callVars, inputVars,
      input_to_inject, previous_inputs_list, code_lines, entry_stdout,
      entry_input, requests, response, script, all_previous_inputs,
      allocation, earlier_trace, graphVars, sanitizerVars, displayVars>>
OutputRedirected(c) == overlap[c].at \in {"out", "saved", "running"}

\* lines 742-748: the reset, which saves sys.stdout (lines 137, 748) and
\* forgets the saved reader (line 138)
OverlapEnter(c) ==
    /\ overlap[c].at = "idle"
    /\ overlap' = [overlap EXCEPT
                      ![c] = Call("entered",
                                  \E o \in Calls \ {c} : OutputRedirected(o))]
    /\ original_stdout' = sys_stdout
    /\ original_builtins_input' = NoValue
    /\ finished' = FALSE
    /\ UNCHANGED <<sys_stdout, builtins_input, OverlapRest>>

\* line 749
OverlapRedirectOutput(c) ==
    /\ overlap[c].at = "entered"
    /\ overlap' = [overlap EXCEPT ![c].at = "out"]
    /\ sys_stdout' = BufferStdout
    /\ UNCHANGED <<builtins_input, original_stdout, original_builtins_input,
                   finished, OverlapRest>>

\* line 750
OverlapSaveInput(c) ==
    /\ overlap[c].at = "out"
    /\ overlap' = [overlap EXCEPT ![c].at = "saved"]
    /\ original_builtins_input' = builtins_input
    /\ UNCHANGED <<sys_stdout, builtins_input, original_stdout, finished,
                   OverlapRest>>

\* line 751, after which the program runs
OverlapRedirectInput(c) ==
    /\ overlap[c].at = "saved"
    /\ overlap' = [overlap EXCEPT ![c].at = "running"]
    /\ builtins_input' = InputMock
    /\ UNCHANGED <<sys_stdout, original_stdout, original_builtins_input,
                   finished, OverlapRest>>

\* a faulty OverlapRestoreOutput, which puts back the stream of the host
\* whatever the session has saved
OverlapRestoreOutput_host(c) ==
    /\ overlap[c].at = "running"
    /\ overlap' = [overlap EXCEPT ![c].at = "restoring"]
    /\ sys_stdout' = HostStdout
    /\ UNCHANGED <<builtins_input, original_stdout, original_builtins_input,
                   finished, OverlapRest>>

\* line 803
OverlapRestoreOutput(c) ==
    /\ overlap[c].at = "running"
    /\ overlap' = [overlap EXCEPT ![c].at = "restoring"]
    /\ sys_stdout' = original_stdout
    /\ UNCHANGED <<builtins_input, original_stdout, original_builtins_input,
                   finished, OverlapRest>>

\* lines 804-806, after which the call returns
OverlapRestoreInput(c) ==
    /\ overlap[c].at = "restoring"
    /\ overlap' = [overlap EXCEPT ![c].at = "returned"]
    /\ builtins_input' = IF original_builtins_input # NoValue
                         THEN original_builtins_input ELSE builtins_input
    /\ original_builtins_input' = NoValue
    /\ finished' = TRUE
    /\ UNCHANGED <<sys_stdout, original_stdout, OverlapRest>>

OverlapNext ==
    \E c \in Calls :
        \/ OverlapEnter(c)
        \/ OverlapRedirectOutput(c)
        \/ OverlapSaveInput(c)
        \/ OverlapRedirectInput(c)
        \/ OverlapRestoreOutput(c)
        \/ OverlapRestoreInput(c)

SpecOverlap == Init /\ [][OverlapNext]_vars

\* the same scopes, with objects whose class cannot be asked for among the
\* objects built
GuardedNext ==
    \/ GraphNext
    \/ NewObject(GuardedType)

SpecGuarded == Init /\ [][GuardedNext]_vars

\* the shapes of a wide scope: <<n, m>> is a container of n lists, each of
\* them holding m empty lists
Shapes ==
    {<<1, 0>>, <<MAX_COLLECTION_ITEMS_TRAVERSE, 0>>,
     <<MAX_COLLECTION_ITEMS_TRAVERSE + 1, 0>>, <<MAX_TRAVERSAL_ITEMS, 0>>,
     <<MAX_COLLECTION_ITEMS_TRAVERSE, MAX_COLLECTION_ITEMS_TRAVERSE>>}

\* o = C() or [] or {} filled in loops: object 1 is the container, objects
\* 2..n+1 its fields, elements or entries, the rest is what those hold
Build(type, n, m) ==
    /\ ~extracted /\ heap = << >>
    /\ heap' = [i \in 1..(1 + n + n * m) |->
                  IF i = 1 THEN HeapObject(type, [k \in 1..n |-> k + 1])
                  ELSE IF i <= n + 1
                  THEN HeapObject("list", [k \in 1..m |-> n + 1 + (i - 2) * m + k])
                  ELSE HeapObject("list", << >>)]
    /\ UNCHANGED <<variables, visualizables_to_display, extracted,
                   extraction_error>>
    /\ UNCHANGED <<SessionVars, sanitizerVars, displayVars, overlap>>

\* name = o, or name = 0
BindContainer(name, v) ==
    /\ heap # << >>
    /\ Bind(name, v)

WideNext ==
    \/ \E t \in ObjectTypes, shape \in Shapes : Build(t, shape[1], shape[2])
    \/ \E i \in 1..Len(ScopeNames), v \in {Primitive, 1} :
            BindContainer(ScopeNames[i], v)
    \/ ExtractVisualizables

SpecWide == Init /\ [][WideNext]_vars

(***************************************************************************)
(* sanitize_traceback_paths called on a report.                            *)
(***************************************************************************)
\* the lines of the reports explored
MaxReportLines == 3

\* a line of a report: text, the summary line of a syntax-error report, or
\* a frame line of the traceback
ReportLines ==
    {TextLine("text"),
     [kind |-> "text", path |-> RawPath(ExternalPath), body |-> "SyntaxError: File, line"]}
    \cup {FileLine(p, "in frame") : p \in AbsolutePaths \cup {UserFile}}
Reports == UNION {[1..n -> ReportLines] : n \in 1..MaxReportLines}

InitReport ==
    /\ InitSession /\ InitHeap /\ InitDisplay /\ InitOverlap /\ script = << >>
    /\ traceback_str \in Reports /\ originated \in BOOLEAN
    /\ sanitized = << >> /\ sanitizer_returned = FALSE

\* lines 724, 778, 800, 1075: the call
SanitizeReport ==
    /\ ~sanitizer_returned
    /\ sanitized' = sanitize_traceback_paths(traceback_str, originated)
    /\ sanitizer_returned' = TRUE
    /\ UNCHANGED <<traceback_str, originated, SessionVars, graphVars,
                   displayVars, overlap>>

SanitizerNext == SanitizeReport

SpecSanitizer == InitReport /\ [][SanitizerNext]_vars

(***************************************************************************)
(* Properties.                                                             *)
(***************************************************************************)
\* the latest request went through run_debugger and has been answered
RunAnswered == pc = "idle" /\ outcome # "none"
\* run_debugger returned its trace to the route
RunReturned == RunAnswered /\ response.kind = "run"
\* the run was ended by an exception of the program that reached run_debugger
ProgramFailed == outcome \in {"Exception", "SyntaxError", "BaseException"}

\* C1: in every trace run_debugger returns, the step fields of the steps
\* read 0, 1, 2, ... in order, whichever way the run ended (a syntax-class
\* failure included).
C1_StepsContiguous ==
    RunReturned =>
        \A i \in 1..Len(response.trace) : response.trace[i].step = i - 1

\* C2: every return record of the call event log carries the call id of a
\* call record that stands earlier in the log, rendering failures included.
C2_ReturnsFollowCalls ==
    \A i \in 1..Len(call_event_log) :
        call_event_log[i].type = "return" =>
            \E j \in 1..(i - 1) :
                /\ call_event_log[j].type = "call"
                /\ call_event_log[j].call_id = call_event_log[i].call_id

\* C2 witness: a logged function of the submission has returned, and the
\* program is inside a second one whose call was not logged because its
\* arguments failed to render
C2_Witness ==
    /\ pc = "running" /\ tracing
    /\ \E i, j \in 1..Len(call_event_log) :
          /\ call_event_log[j].type = "call"
          /\ call_event_log[j].function_name = "f"
          /\ call_event_log[i].type = "return"
          /\ call_event_log[i].call_id = call_event_log[j].call_id
    /\ Len(frames) = 2 /\ IsUserCode(frames[2]) /\ frames[2].name = "f"
    /\ Len(active_call_ids_stack) = 1 /\ logged_call_ids_stack = << >>

\* number of return records of the log that carry call id `id`
ReturnsOf(log, id) ==
    Cardinality({j \in 1..Len(log) : log[j].type = "return" /\ log[j].call_id = id})

\* C3: when the program runs to normal completion, every call record of
\* the log has exactly one return record, logged invocations named
\* <module> that are not the whole-program entry included.
C3_CallsReturnOnce ==
    (RunReturned /\ outcome = "normal") =>
        \A i \in 1..Len(call_event_log) :
            call_event_log[i].type = "call" =>
                ReturnsOf(call_event_log, call_event_log[i].call_id) = 1

\* the console reads of a scripted program, in order
ReadsOf(s) == SelectSeq(s, LAMBDA e : e.op = "read")
\* the prompts and the values the resume protocol supplies, interleaved:
\* the k-th value is the one the k-th continuation (request k+1) injects
RECURSIVE EchoFrom(_, _)
EchoFrom(reads, k) ==
    IF k > Len(reads) THEN << >>
    ELSE <<reads[k].prompt, ValueOf(k + 1)>> \o EchoFrom(reads, k + 1)
\* s occurs in t as a subsequence
RECURSIVE Embeds(_, _)
Embeds(s, t) ==
    IF s = << >> THEN TRUE
    ELSE IF t = << >> THEN FALSE
    ELSE IF Head(s) = Head(t) THEN Embeds(Tail(s), Tail(t))
    ELSE Embeds(s, Tail(t))

\* C4: a deterministic program that reads the console n times, driven by a
\* fresh request without an injected value and then continuations that
\* inject one value each, yields exactly n responses with finished false,
\* the k-th with the prompt of the k-th read on its last step, then one
\* response with finished true whose final output holds every prompt
\* followed by its value, in order.
C4_ResumeProtocol ==
    (pc = "idle" /\ requests >= 1) =>
        LET reads == ReadsOf(script)
            k == requests
        IN IF k <= Len(reads)
           THEN /\ ~response.finished
                /\ response.trace # << >>
                /\ Last(response.trace).input_request = reads[k].prompt
           ELSE /\ k = Len(reads) + 1
                /\ response.finished
                /\ response.trace # << >>
                /\ Embeds(EchoFrom(reads, 1), Last(response.trace).stdout)

\* C5: a submission that fails to parse before any line runs yields a trace
\* of exactly one step, of index 0, with a non-empty sanitized error text
\* that shows no absolute path, and the session and the response finished.
C5_ParseFailure ==
    (pc = "idle" /\ outcome = "compile") =>
        /\ response.kind = "run"
        /\ Len(response.trace) = 1
        /\ response.trace[1].step = 0
        /\ response.trace[1].error # NoError
        /\ ~LeaksPath(response.trace[1].error)
        /\ response.error = response.trace[1].error
        /\ response.finished /\ finished

\* C5 witness: a request whose text has a syntax error has been answered
C5_Witness ==
    /\ pc = "idle" /\ outcome = "compile"
    /\ response.trace # << >> /\ response.trace[1].code = "Syntax Error"
    /\ code_lines = SrcBad.lines

\* C6: whatever the class of an uncaught failure of the program,
\* run_debugger does not propagate it: it returns a trace whose last step
\* carries a non-empty error text, and the session is finished.
C6_FailureContained ==
    (RunAnswered /\ ProgramFailed) =>
        /\ response.kind = "run"
        /\ response.trace # << >>
        /\ Last(response.trace).error # NoError
        /\ finished

\* C7: whenever run_debugger has been left, by return or by exception,
\* sys.stdout and builtins.input are the objects they were at its entry.
C7_RedirectionRestored ==
    pc = "idle" =>
        /\ sys_stdout = entry_stdout
        /\ builtins_input = entry_input

\* C7 witness: run_debugger has been left by an exception that went
\* through it, after the program ran under the redirection
C7_Witness ==
    /\ RunAnswered /\ response.kind \in {"escaped", "crash"}
    /\ events > 0 /\ stdout_buffer # << >>

C9_ReadSuspends ==
    (RunAnswered /\ blocked_prompt # NoValue) =>
        /\ ~finished
        /\ execution_trace # << >>
        /\ Last(execution_trace).input_request = blocked_prompt

\* the staged value of the run has been handed to a read
Consumed ==
    input_to_inject # NoValue /\ provided_input_value_for_next_call = NoValue

\* C10: a read replays the history first (the index moves by one), else it
\* takes the staged value (at most once, appending it to the history), else
\* it suspends; so at any point of a run and after it the history is the
\* history the run started with, followed by the injected value exactly
\* when that was consumed; the staged value is taken only once the history
\* is replayed, and a read blocks only when neither is left.
C10_ReadPriority ==
    (pc # "idle" \/ outcome # "none") =>
        /\ all_provided_inputs =
              previous_inputs_list \o (IF Consumed THEN <<input_to_inject>> ELSE << >>)
        /\ next_input_index <= Len(all_provided_inputs)
        /\ Consumed => next_input_index = Len(all_provided_inputs)
        /\ blocked_prompt # NoValue =>
              /\ next_input_index = Len(all_provided_inputs)
              /\ provided_input_value_for_next_call = NoValue

\* C10 witness: a run that replayed a value of an earlier run, then consumed
\* its own staged value, then blocked on a third read, has been answered
C10_Witness ==
    /\ RunAnswered
    /\ previous_inputs_list # << >> /\ Consumed
    /\ Len(all_provided_inputs) = Len(previous_inputs_list) + 1
    /\ blocked_prompt # NoValue

\* reads of the run in progress, or of the run just answered, that were
\* served from the history the run started with
Replayed ==
    IF next_input_index <= Len(previous_inputs_list)
    THEN next_input_index ELSE Len(previous_inputs_list)

\* C11: on a continuation request, the values handed back to the program
\* for its already-answered reads are the entries, in order, of the list
\* of earlier input values the caller passes in that request (only a
\* continuation has reads to replay).
C11_ReplayFromRequest ==
    (pc # "idle" \/ outcome # "none") =>
        \A i \in 1..Replayed :
            /\ i <= Len(all_previous_inputs)
            /\ all_provided_inputs[i] = all_previous_inputs[i]

\* the invocation with call id `id` has a call record
Logged(id) ==
    \E i \in 1..Len(call_event_log) :
        call_event_log[i].type = "call" /\ call_event_log[i].call_id = id
\* the call id of the nearest frame enclosing frame k whose invocation is
\* logged (an enclosing frame has not returned), NoId if there is none
EnclosingLogged(k) ==
    LET c == {j \in 1..(k - 1) : frames[j].id # NoId /\ Logged(frames[j].id)}
    IN IF c = {} THEN NoId ELSE frames[CHOOSE j \in c : \A h \in c : h <= j].id

\* C12: the parent_call_id of every call record is the call id of the
\* nearest enclosing invocation that is logged and has not returned at the
\* moment of the call, or none; rendering failures and unlogged
\* invocations in between do not break the chain.  (Stated for the records
\* of the invocations in progress, which covers every record at the moment
\* it is written.)
C12_ParentIsEnclosing ==
    \A k \in 1..Len(frames), i \in 1..Len(call_event_log) :
        (/\ frames[k].id # NoId
         /\ call_event_log[i].type = "call"
         /\ call_event_log[i].call_id = frames[k].id)
        => call_event_log[i].parent_call_id = EnclosingLogged(k)

\* C13: a call record is appended, and a call id pushed on the logged
\* stack, only for invocations whose frame is classified as user (a frame
\* of the compiled submission); an invocation of any other origin, library
\* code included, never enters the call event log.  (Stated for the
\* invocations in progress, which covers every record at the moment it is
\* written.)
C13_OnlyUserLogged ==
    \A k \in 1..Len(frames) :
        (frames[k].id # NoId /\ Logged(frames[k].id)) => IsUserCode(frames[k])

\* the whole-program entry is entered, or returns or is left by an exception
EntryEnters == pc = "idle" /\ pc' = "running"
EntryLeaves == pc = "running" /\ Len(frames) = 1 /\ frames' = << >>

\* C14: the whole-program module-level entry never appears in the call
\* event log: the log holds no record once the entry frame is entered, and
\* the step that ends the entry frame adds none.
C14_EntryNotLogged ==
    [][/\ EntryEnters => call_event_log' = << >>
       /\ EntryLeaves => call_event_log' = call_event_log]_vars

\* C14 witness: the entry frame has returned in a run whose log holds
\* records of other invocations, one of them named <module>
C14_Witness ==
    /\ pc = "exited" /\ outcome = "normal"
    /\ \E i \in 1..Len(call_event_log) :
          call_event_log[i].function_name = "<module>"

\* the identities of the nodes of the returned graph, and the nodes of one
\* identity
NodeIds == {visualizables_to_display[i].id : i \in 1..Len(visualizables_to_display)}
NodesOf(id) == {i \in 1..Len(visualizables_to_display) : visualizables_to_display[i].id = id}
NamesOf(id) == {ScopeNames[i] : i \in {j \in 1..Len(ScopeNames) : variables[ScopeNames[j]] = id}}

\* C15: the graph returned for a scope has at most one node per object
\* identity, and the node of an object that several names of the scope are
\* bound to is one node whose display name lists all those names.
C15_OneNodePerIdentity ==
    extracted =>
        /\ \A id \in 1..Len(heap) : Cardinality(NodesOf(id)) <= 1
        /\ \A id \in 1..Len(heap) :
              NamesOf(id) # {} =>
                  \E i \in NodesOf(id) :
                      /\ NodesOf(id) = {i}
                      /\ Len(visualizables_to_display[i].name) = Cardinality(NamesOf(id))
                      /\ \A n \in NamesOf(id) :
                            \E k \in 1..Len(visualizables_to_display[i].name) :
                                visualizables_to_display[i].name[k] = n
\* two names bound to one list that another node refers to
C15_Witness ==
    /\ extracted
    /\ variables["x"] = variables["y"] /\ variables["x"] # Primitive
    /\ \E i, j \in 1..Len(visualizables_to_display) :
          /\ i # j
          /\ visualizables_to_display[i].name = <<"x", "y">>
          /\ \E r \in 1..Len(visualizables_to_display[j].references) :
                visualizables_to_display[j].references[r].target_id = variables["x"]

\* the objects reached from object a through one or more fields, elements
\* or entries
RECURSIVE ReachedIn(_, _)
ReachedIn(from, n) ==
    IF n = 0 THEN from
    ELSE ReachedIn(from \cup UNION {{heap[o].items[i] : i \in 1..Len(heap[o].items)} \ {Primitive} : o \in from}, n - 1)
Inside(a) ==
    ReachedIn({heap[a].items[i] : i \in 1..Len(heap[a].items)} \ {Primitive}, Len(heap))
OnCycle(a) == a \in Inside(a)

\* C16: an object that contains itself, directly or through others, is one
\* node of the graph, and every item of a node that closes a cycle, the node
\* found inside itself included, is rendered as a reference marker, neither
\* inlined nor replaced by an error.
C16_CyclesAsMarkers ==
    extracted =>
        \A n \in 1..Len(visualizables_to_display) :
            LET node == visualizables_to_display[n]
                items == heap[node.id].items
            IN OnCycle(node.id) =>
                  /\ NodesOf(node.id) = {n}
                  /\ ~node.error
                  /\ Len(node.payload) = Len(items)
                  /\ \A i \in 1..Len(items) :
                        (items[i] # Primitive /\ node.id \in Inside(items[i]) \cup {items[i]})
                            => node.payload[i].kind = "ref"

\* C17: every reference of a node of the graph targets a node of the graph,
\* and a node has a reference for each of its fields, elements and entries
\* that is a node of the graph.
C17_ReferencesComplete ==
    extracted =>
        \A n \in 1..Len(visualizables_to_display) :
            LET node == visualizables_to_display[n]
                items == heap[node.id].items
            IN /\ \A r \in 1..Len(node.references) :
                      node.references[r].target_id \in NodeIds
               /\ \A i \in 1..Len(items) :
                      items[i] \in NodeIds =>
                          \E r \in 1..Len(node.references) :
                              /\ node.references[r].field_name = i
                              /\ node.references[r].target_id = items[i]


\* the frame lines of the user submission after the first line of the
\* report handed to the sanitizer
UserFrameLines ==
    {i \in 2..Len(traceback_str) :
        traceback_str[i].kind = "file" /\ traceback_str[i].path = RawPath(UserFile)}

\* C18: sanitize_traceback_paths(report, True) returns the first line
\* unchanged, followed by exactly the lines from the first frame line of the
\* user submission to the end; when the report has no such line after its
\* first line the result is that of sanitize_traceback_paths(report, False),
\* which keeps every line.
C18_DropsToFirstUserFrame ==
    sanitizer_returned =>
        LET kept == sanitize_traceback_paths(traceback_str, FALSE)
        IN /\ Len(kept) = Len(traceback_str)
           /\ sanitized[1] = traceback_str[1]
           /\ ~originated => sanitized = kept
           /\ (originated /\ UserFrameLines = {}) => sanitized = kept
           /\ (originated /\ UserFrameLines # {}) =>
                 LET m == CHOOSE i \in UserFrameLines : \A j \in UserFrameLines : i <= j
                 IN /\ Len(sanitized) = Len(traceback_str) - m + 2
                    /\ \A k \in 2..Len(sanitized) : sanitized[k] = kept[m + k - 2]
\* a report whose frame of the user submission comes after a frame of the
\* tracer, which is dropped
C18_Witness ==
    /\ sanitizer_returned /\ originated
    /\ Len(traceback_str) = 3 /\ Len(sanitized) = 2
    /\ traceback_str[2].kind = "file" /\ traceback_str[2].path = RawPath(DebuggerPath)
    /\ sanitized[2].path.label = "Your Code"

\* C19: no line of an error text placed in a step, the first line included,
\* shows the absolute path of a file; the text built for a syntax-class
\* failure is no exception.
C19_NoAbsolutePath ==
    \A i \in 1..Len(execution_trace) : ~LeaksPath(execution_trace[i].error)

\* C20: a request that fails before run_debugger is called (translation
\* failed, or no code to run) is answered with a trace of exactly one step,
\* which carries the error text, and with finished = true; run_debugger is
\* not entered: the parameters of a run, the redirection and the engine stay
\* as they were.
SetupFails == requests' = requests + 1 /\ response'.kind = "setup"
C20_SetupFailureAnswered ==
    [][SetupFails =>
          /\ Len(response'.trace) = 1
          /\ response'.error # NoError
          /\ response'.trace[1].error = response'.error
          /\ response'.finished
          /\ UNCHANGED <<input_to_inject, previous_inputs_list, entry_stdout,
                         entry_input, sys_stdout, builtins_input, pc, frames,
                         tracing, events>>
          /\ outcome' = "none"]_vars
\* a request that failed in its setup after an earlier request was served
C20_Witness ==
    /\ response.kind = "setup" /\ requests > 1
    /\ Len(response.trace) = 1 /\ response.finished
    /\ pc = "idle"


\* C21: two runs of the same source with the same injected inputs, each
\* from a freshly reset session, return the same steps, field for field,
\* the identities and addresses of the graph nodes included.
C21_SameSourceSameSteps ==
    (requests = 2 /\ RunReturned) => response.trace = earlier_trace


\* C22: the terminal step of a failed run is built as a pre-execution
\* syntax failure (step 0, locals of the module scope, final graph) only
\* when the source did not compile; a syntax-class failure raised while the
\* program executes is reported as a runtime failure (step index = number
\* of steps recorded, locals of the last recorded step).
C22_SyntaxOnlyBeforeExecution ==
    (RunReturned /\ outcome \in {"compile", "Exception", "SyntaxError"}) =>
        LET terminal == Last(response.trace)
        IN /\ (terminal.locals = "module" /\ terminal.visualizables.scope = "final")
                  => outcome = "compile"
           /\ outcome = "SyntaxError" =>
                  /\ terminal.step = current_step
                  /\ terminal.locals = "frame"

\* C23: once the blocking-input signal has been raised in a run, no step
\* and no call or return record is appended in that run, so that the step
\* that receives input_request is the one recorded for the line that
\* requested the input.
SignalRaised == pc \in {"running", "exited"} /\ exc.kind = "Waiting"
C23_NothingAfterSignal ==
    [][SignalRaised =>
          /\ Len(execution_trace') = Len(execution_trace)
          /\ call_event_log' = call_event_log]_vars

\* the requests of the two kinds, whatever they carry and however far they
\* get (setup failure, compile failure, start of the program)
RequestOf(is_continuation) ==
    \E code \in Sources :
        \/ \E t \in BOOLEAN : DebugSetupFailure(code, is_continuation, t, PassedBack)
        \/ \E v \in Injectable :
              \/ DebugCompileFailure(code, is_continuation, v, PassedBack)
              \/ DebugStart(code, is_continuation, v, PassedBack)
Answered == response.kind \in {"run", "crash", "setup"}

\* C24: a new run starts from an empty input history, an empty trace, an
\* empty call log and call-id counter 0, whatever the session held; over
\* continuation requests the input list an answer returns is the list the
\* previous answer returned, extended by at most the value injected with
\* the request, earlier entries unchanged.
C24_HistoryAcrossRequests ==
    [][/\ \/ /\ all_provided_inputs' = << >> /\ next_input_index' = 0
             /\ call_event_log' = << >> /\ call_id_counter' = 0
             /\ pc' = "running" => execution_trace' = << >>
             /\ Answered' => response'.updated_all_inputs = << >>
          \/ ~(pc = "idle" /\ RequestOf(FALSE))
       /\ (pc = "idle" /\ Answered) =>
             response.updated_all_inputs = all_provided_inputs
       /\ \/ /\ all_provided_inputs' = all_provided_inputs
             /\ pc' = "running" => previous_inputs_list' = all_provided_inputs
             /\ Answered' => response'.updated_all_inputs = all_provided_inputs
          \/ ~(pc = "idle" /\ RequestOf(TRUE))
       /\ pc \in {"running", "exited"} =>
             /\ \/ all_provided_inputs' = all_provided_inputs
                \/ /\ all_provided_inputs = previous_inputs_list
                   /\ input_to_inject # NoValue
                   /\ all_provided_inputs' = Append(previous_inputs_list, input_to_inject)
             /\ (pc' = "idle" /\ Answered') =>
                   response'.updated_all_inputs = all_provided_inputs']_vars
\* a continuation answered with the list of the answer before it and the
\* value injected with it
C24_Witness ==
    /\ pc = "idle" /\ response.kind = "run" /\ requests = 2
    /\ previous_inputs_list = <<ValueOf(1)>>
    /\ response.updated_all_inputs = <<ValueOf(1), ValueOf(2)>>


\* C25: every call hook raises the call-id counter by exactly one, logged
\* or not; the call ids of the call records strictly increase along the
\* log; an invocation classified as the tracer's or the engine's own leaves
\* no call and no return record, and its id is no record's parent_call_id
InternalFrame(f) == IsDebuggerInternal(f) \/ IsBdbInternal(f)
RecordIds(log) ==
    {log[i].call_id : i \in DOMAIN log} \cup {log[i].parent_call_id : i \in DOMAIN log}
CallIdsIncrease(log) ==
    \A i, j \in DOMAIN log :
        (i < j /\ log[i].type = "call" /\ log[j].type = "call")
            => log[i].call_id < log[j].call_id
ParentsAreLogged(log) ==
    \A j \in DOMAIN log :
        (log[j].type = "call" /\ log[j].parent_call_id # NoId) =>
            \E i \in 1..(j - 1) : /\ log[i].type = "call"
                                  /\ log[i].call_id = log[j].parent_call_id
InternalIdsUnlogged ==
    \A i \in DOMAIN frames :
        (InternalFrame(frames[i]) /\ frames[i].id # NoId)
            => frames[i].id \notin RecordIds(call_event_log)
C25_InternalCallsConsumeIds ==
    [][/\ \A f \in CallableFrames, args_fail \in BOOLEAN :
             (tracing /\ ProgCall(f, args_fail)) =>
                 /\ call_id_counter' = call_id_counter + 1
                 /\ InternalFrame(f) =>
                        /\ call_event_log' = call_event_log
                        /\ logged_call_ids_stack' = logged_call_ids_stack
       /\ \A repr_fails \in BOOLEAN :
             (tracing /\ ProgReturn(repr_fails) /\ InternalFrame(Last(frames)))
                 => call_event_log' = call_event_log
       /\ \A prompt \in Prompts :
             (tracing /\ ProgInput(prompt)) =>
                 /\ call_id_counter' \in {call_id_counter + 1, call_id_counter + 3}
                 /\ (call_id_counter + 1) \notin RecordIds(call_event_log')
       /\ (pc = "running" /\ pc' = "running") =>
             \A j \in (Len(call_event_log) + 1)..Len(call_event_log') :
                 call_event_log'[j].type = "call" =>
                     call_event_log'[j].call_id \in
                         (call_id_counter + 1)..call_id_counter'
       /\ CallIdsIncrease(call_event_log')
       /\ ParentsAreLogged(call_event_log')
       /\ InternalIdsUnlogged']_vars
\* an engine frame holds an id and a later invocation is in the log
C25_Witness ==
    \E i \in DOMAIN frames :
        /\ InternalFrame(frames[i]) /\ frames[i].id # NoId
        /\ \E j \in DOMAIN call_event_log :
              /\ call_event_log[j].type = "call"
              /\ call_event_log[j].call_id > frames[i].id


\* C26: the graph extract_visualizables returns for a scope never has more
\* nodes than the traversal budget, however wide the scope and its objects
C26_NodeBudget ==
    extracted => Len(visualizables_to_display) <= MAX_TRAVERSAL_ITEMS

\* C27: no expanded object, of whatever kind, brings more children into the
\* graph than the fan-out budget
ChildrenOf(id) ==
    {j \in 1..Len(visualizables_to_display) :
        /\ ~visualizables_to_display[j].has_direct_reference
        /\ \E k \in DOMAIN heap[id].items :
              heap[id].items[k] = visualizables_to_display[j].id}
C27_FanOutBudget ==
    extracted =>
        \A i \in 1..Len(visualizables_to_display) :
            Cardinality(ChildrenOf(visualizables_to_display[i].id))
                <= MAX_COLLECTION_ITEMS_TRAVERSE


\* C28: after an exception raised inside the step recorder, the trace that
\* run_debugger returns ends with the step that carries the sanitized error
\* of the recorder, no step follows it, and the session is marked finished
RecorderError == sanitize_traceback_paths(InternalErrorReport, FALSE)
RecorderFailed ==
    \E i \in DOMAIN execution_trace : execution_trace[i].error = RecorderError
C28_RecorderFailureEndsRun ==
    (RunReturned /\ RecorderFailed) =>
        /\ Last(response.trace).error = RecorderError
        /\ finished /\ response.finished


\* C29: within a run, a step that is no longer the last one of the trace
\* is never changed again, by a hook or by finalization; each of them
\* changes the last step or appends one step, and the trace the run returns
\* is the trace so built
C29_EarlierStepsFrozen ==
    [][pc # "idle" =>
          /\ Len(execution_trace') \in {Len(execution_trace), Len(execution_trace) + 1}
          /\ \A i \in 1..(Len(execution_trace) - 1) :
                execution_trace'[i] = execution_trace[i]
          /\ Len(execution_trace') = Len(execution_trace) + 1 =>
                Front(execution_trace') = execution_trace
          /\ (pc' = "idle" /\ response'.kind = "run") =>
                response'.trace = execution_trace']_vars
\* a run of several steps whose last step finalization has rewritten with
\* output the program printed after that step was recorded
C29_Witness ==
    /\ RunReturned /\ outcome = "normal" /\ Len(response.trace) >= 2
    /\ Last(response.trace).visualizables.scope = "final"
    /\ Last(response.trace).stdout # Last(Front(response.trace)).stdout


\* C30: in a returned trace, every call or return record among the
\* historical events of a step, the terminal step included, has a
\* timestamp_step that is at most the index of that step
C30_EventsNotFromLater ==
    RunReturned =>
        \A i \in DOMAIN response.trace :
            \A k \in DOMAIN response.trace[i].historical_events :
                response.trace[i].historical_events[k].timestamp_step
                    <= response.trace[i].step


\* C31: the current_frames of a recorded step are at most 7, innermost
\* first, frames of the submission only; when the chain of submission
\* frames is at most 7 deep, every one of them is listed, the module-level
\* frame as '(Global Scope)'
Reverse(seq) == [i \in 1..Len(seq) |-> seq[Len(seq) + 1 - i]]
UserChain(stack) ==
    LET users == SelectSeq(Reverse(stack), IsUserCode)
    IN [i \in 1..Len(users) |-> DisplayName(users[i])]
StepRecorded ==
    pc = "running" /\ Len(execution_trace') = Len(execution_trace) + 1
C31_StackView ==
    [][StepRecorded =>
          LET listed == Last(execution_trace').current_frames
              chain == UserChain(frames)
          IN /\ Len(listed) <= MAX_STACK_DEPTH_DISPLAY_SIMPLE
             /\ \E k \in 0..Len(chain) : listed = SubSeq(chain, 1, k)
             /\ Len(chain) <= MAX_STACK_DEPTH_DISPLAY_SIMPLE =>
                    /\ listed = chain
                    /\ Last(listed) = "(Global Scope)"]_vars


\* C32: a line hook records a step exactly when the frame belongs to the
\* submission; for any other frame it appends nothing, leaves the step
\* counter alone and keeps stepping armed
C32_OnlyUserLinesRecorded ==
    [][\A capture_fails \in BOOLEAN :
          (tracing /\ ProgLine(capture_fails)) =>
              IF IsUserCode(Last(frames))
              THEN /\ Len(execution_trace') = Len(execution_trace) + 1
                   /\ current_step' = current_step + 1
              ELSE /\ execution_trace' = execution_trace
                   /\ current_step' = current_step
                   /\ tracing' /\ ~quitting']_vars
\* a traced frame of another file has run a line, after a recorded step
C32_Witness ==
    /\ tracing /\ execution_trace # << >>
    /\ \E i \in DOMAIN frames :
          /\ ~IsUserCode(frames[i]) /\ frames[i].started
          /\ frames[i].id # NoId


\* a step of the trace carries an input_request
Requests(trace) == {i \in DOMAIN trace : trace[i].input_request # NoValue}

\* C33: in a returned trace only the last step can carry an input_request,
\* and it carries one exactly when the run ended suspended; no step of the
\* run that follows carries a request left over from the run before
C33_OneRequestAtEnd ==
    /\ RunReturned =>
          /\ Requests(response.trace) \subseteq {Len(response.trace)}
          /\ (Requests(response.trace) # {}) <=> (outcome = "Waiting")
    /\ pc \in {"running", "exited"} => Requests(execution_trace) = {}
\* a run that was given an answer to an earlier read has ended suspended
C33_Witness ==
    /\ RunReturned /\ outcome = "Waiting" /\ all_provided_inputs # << >>
    /\ Len(response.trace) >= 2
    /\ Requests(response.trace) = {Len(response.trace)}


\* the objects the names of the scope are bound to, and the objects reached
\* from them
ScopeObjects ==
    {variables[ScopeNames[i]] : i \in 1..Len(ScopeNames)} \ {Primitive}
InScope == ReachedIn(ScopeObjects, Len(heap))
\* rendering the payload of the object fails: its class cannot be asked
\* for, or one of its items is such an object or the object itself
RenderingFails(o) ==
    \E i \in 1..Len(heap[o].items) :
        \/ Guarded(heap, heap[o].items[i])
        \/ heap[o].type \in {"list", "dict"} /\ heap[o].items[i] = o

\* C34: extract_visualizables returns whatever object of the scope fails to
\* be introspected or rendered: the failing object is a node that carries
\* an error, every other object of the scope is a node with its full
\* payload
C34_ExtractionSurvives ==
    extracted =>
        /\ ~extraction_error
        /\ \A o \in InScope : ~Guarded(heap, o) => o \in NodeIds
        /\ \A n \in 1..Len(visualizables_to_display) :
              LET node == visualizables_to_display[n]
              IN IF RenderingFails(node.id)
                 THEN node.error \/ node.payload = <<ErrorRepr>>
                 ELSE /\ ~node.error
                      /\ Len(node.payload) = Len(heap[node.id].items)
                      /\ \A i \in 1..Len(node.payload) :
                            node.payload[i].kind \notin {"raise", "error"}


\* the variables of the submission in scope at the step shown, dunder
\* names, callables, modules and classes left out
VisibleVariables ==
    LET scope == IF shown.at = "function"
                 THEN current_context(f_globals, f_locals)
                 ELSE f_globals
    IN {k \in Bound(scope) :
           ~StartsWithDunder(k) /\ scope[k] \in {"number", "list"}}

\* C35: at every step, the last step of a completed run included, every
\* variable of the submission in scope that is neither a dunder name nor a
\* callable, a module or a class is in the locals or globals mapping of the
\* step or names a node of its graph, whatever it is called
C35_VariablesShown ==
    shown.at # "none" =>
        VisibleVariables \subseteq (shown.locals \cup shown.globals \cup shown.nodes)


BothReturned == \A c \in Calls : overlap[c].at = "returned"
Overlapped == \E c \in Calls : overlap[c].during

\* C36: nothing keeps two calls on the one session apart: when one is
\* entered while the other has the output redirected, the session saves the
\* tracer's buffer as the stream to put back, and once both calls have
\* returned sys.stdout is still that buffer and not the stream of the host
C36_OverlapKeepsRedirection ==
    (BothReturned /\ Overlapped) => sys_stdout = BufferStdout
\* both calls have returned, the one entered while the other ran, and
\* neither the output stream nor the console reader is the host's
C36_Witness ==
    /\ BothReturned /\ Overlapped
    /\ sys_stdout = BufferStdout /\ builtins_input = InputMock


\* the ids of a stack, bottom to top, grow
Increasing(stack) == \A i, j \in DOMAIN stack : i < j => stack[i] < stack[j]
\* stack `inner` is what is left of stack `outer` when some ids are removed
SubStack(inner, outer) ==
    /\ \A i \in DOMAIN inner : \E j \in DOMAIN outer : outer[j] = inner[i]
    /\ Increasing(inner) /\ Increasing(outer)
\* the invocation has a call record and no return record
OpenInLog(id, log) ==
    /\ \E r \in DOMAIN log : log[r].type = "call" /\ log[r].call_id = id
    /\ ~\E r \in DOMAIN log : log[r].type = "return" /\ log[r].call_id = id

\* C37: after every call or return hook the logged stack is a subsequence
\* of the active stack, both growing from bottom to top, every id of the
\* logged stack has a call record and no return record, and the id of an
\* invocation whose return hook has run is on neither stack, whether its
\* return value could be rendered or not
C37_StacksAgree ==
    [][(pc = "running" /\ tracing /\ CS' # CS) =>
          /\ SubStack(logged_call_ids_stack', active_call_ids_stack')
          /\ \A i \in DOMAIN logged_call_ids_stack' :
                OpenInLog(logged_call_ids_stack'[i], call_event_log')
          /\ Len(active_call_ids_stack') < Len(active_call_ids_stack) =>
                \A i \in DOMAIN logged_call_ids_stack' :
                    logged_call_ids_stack'[i] # Last(active_call_ids_stack)]_vars


\* text `a` is the beginning of text `b`
BeginsWith(b, a) == Len(a) <= Len(b) /\ SubSeq(b, 1, Len(a)) = a

\* C38: in a returned trace the console output of a step is the beginning
\* of that of every later step, and the output of the last step is all the
\* run has captured, the prompt of a read left pending included
C38_OutputGrows ==
    RunReturned =>
        /\ \A i, j \in DOMAIN response.trace :
              i < j => BeginsWith(response.trace[j].stdout, response.trace[i].stdout)
        /\ response.trace # << >> /\ Last(response.trace).stdout = stdout_buffer
        /\ blocked_prompt # NoValue /\ outcome = "Waiting" =>
              /\ stdout_buffer # << >>
              /\ Last(stdout_buffer) = blocked_prompt
\* a run that printed between two steps has ended on a pending read
C38_Witness ==
    /\ RunReturned /\ outcome = "Waiting" /\ Len(response.trace) >= 2
    /\ response.trace[1].stdout # Last(response.trace).stdout
    /\ Len(Last(response.trace).stdout) >= 2


\* a continuation that carries `code` enters run_debugger
ContinuationRuns(code) ==
    \E v \in Injectable :
        \/ DebugStart(code, TRUE, v, PassedBack)
        \/ DebugCompileFailure(code, TRUE, v, PassedBack)

\* C39: a continuation runs the source the session has stored, whatever
\* source the request carries; the source of the request is run only when
\* the session has stored none, and only then can a request without source
\* be turned down
C39_ContinuationSource ==
    [][\A code \in Sources :
          /\ \/ code_lines' = IF code_lines # << >> THEN code_lines
                                                    ELSE splitlines(code)
             \/ ~(pc = "idle" /\ ContinuationRuns(code))
          /\ \/ code_lines = << >> /\ IsBlank(code)
             \/ ~(pc = "idle" /\ DebugSetupFailure(code, TRUE, FALSE, PassedBack))]_vars
\* a continuation that was handed an answer runs the stored source
C39_Witness ==
    /\ pc = "running" /\ requests >= 2
    /\ previous_inputs_list # << >> /\ code_lines # << >>


TypeOK ==
    /\ pc \in {"idle", "running", "exited"}
    /\ finished \in BOOLEAN /\ quitting \in BOOLEAN /\ tracing \in BOOLEAN
    /\ current_step \in Nat /\ call_id_counter \in Nat
    /\ next_input_index \in 0..Len(all_provided_inputs)
    /\ sys_stdout \in {HostStdout, BufferStdout}
    /\ builtins_input \in {HostInput, InputMock}
====
